---------------------------- MODULE Spec2Model ----------------------------
(***************************************************************************)
(* A model of the m6502 CPU emulator (cpu.go): the register file, the bus  *)
(* adapter with its cycle accounting, the addressing-mode decoders, the    *)
(* ALU, the opcode dispatcher, and the public operations New, Reset, NMI,  *)
(* IRQ, PC and Step.                                                       *)
(*                                                                         *)
(* The bus is the caller's.  It is modelled as a 64 KiB memory whose        *)
(* initial contents are unknown until the CPU first reads them: the first  *)
(* read of an address draws its byte from ByteChoices and records it in    *)
(* mem, so that every later read of the address sees the same byte.  Two   *)
(* pages are unmapped and make the bus panic, as the Bus interface allows. *)
(***************************************************************************)
EXTENDS Integers, Sequences, FiniteSets, TLC

VARIABLES bus, a, x, y, s, p, pcl, pch, cycles, halted, mem, last, nsteps, ncalls

vars == <<bus, a, x, y, s, p, pcl, pch, cycles, halted, mem, last, nsteps, ncalls>>

-----------------------------------------------------------------------------
(* Bounds of the model. *)

\* Step calls made by one behaviour (the prologue of the program image is
\* four instructions long).
MaxSteps == 6

\* Reset, NMI, IRQ and PC calls made by one behaviour.
MaxCalls == 1

\* Step calls the test harness makes on the last instruction of a test.
TestSteps == 1

-----------------------------------------------------------------------------
(* Bytes and bit operations on them (Go's byte arithmetic). *)

Byte == 0..255

B(n) == n % 256

\* m & n, bit by bit from bit k up
RECURSIVE AndFrom(_, _, _)
AndFrom(m, n, k) ==
    IF k = 256 THEN 0
    ELSE (IF (m \div k) % 2 = 1 /\ (n \div k) % 2 = 1 THEN k ELSE 0)
         + AndFrom(m, n, 2 * k)

And(m, n) == AndFrom(m, n, 1)

Or(m, n) == m + n - And(m, n)

Xor(m, n) == m + n - 2 * And(m, n)

Not(m) == 255 - m

Shl(m, k) == (m * (2 ^ k)) % 256

Shr(m, k) == m \div (2 ^ k)

\* int8(n): a byte read as a signed 8-bit value
int8(n) == IF n >= 128 THEN n - 256 ELSE n

-----------------------------------------------------------------------------
(* The flag bits. *)

flagN == 128
flagV == 64
flagU == 32
flagB == 16
flagD == 8
flagI == 4
flagZ == 2
flagC == 1

\* (*flag).has
has(f, bit) == And(f, bit) # 0

\* (*flag).set
set(f, cond, bit) == IF cond THEN Or(f, bit) ELSE And(f, Not(bit))

-----------------------------------------------------------------------------
(* The caller's bus: a memory bus as in the tests (memoryBus), of which two *)
(* pages are unmapped (a Read or Write there panics, as panicBus does).    *)

Addr(l, h) == h * 256 + l

\* Page $42 panics with a string value, as panicBus does (panic("foo"));
\* page $52 panics with a value that is no string (an error value, as Go's
\* own runtime raises for an index out of range).
Unmapped(h) == h \in {66, 82}

PanicValue(h) == IF h = 66 THEN "string" ELSE "error"

\* The buses the caller constructs the CPU on.  Both hold a program at
\* $0400, where the reset vector points.
\*   "main":   a prologue sets X, Y, A and P; the instruction under test
\*             follows at $0407 with its two operand bytes.
\*   "branch": the prologue is a PLP; a branch instruction stands at $04F0,
\*             where a forward branch leaves the page and a backward one
\*             stays in it.
\* The interrupt handlers at $0410 and $0420 are a single RTI; every other
\* byte of the page is a HLT.  The operand bytes are HLT opcodes where a
\* value of the kind exists, so that a program running into its own
\* operands stops there.
Buses == {"main", "branch"}

XVals == {16}
YVals == {16}
AVals == {128}
Operand1 == {18, 242}
Operand2 == {34, 66, 82}
BranchOps == {16, 48, 80, 112, 144, 176, 208, 240}

Program(b, l) ==
    CASE l = 16 -> {64}                       \* RTI
      [] l = 32 -> {64}                       \* RTI
      [] b = "main" /\ l = 0 -> {162}         \* LDX #
      [] b = "main" /\ l = 1 -> XVals
      [] b = "main" /\ l = 2 -> {160}         \* LDY #
      [] b = "main" /\ l = 3 -> YVals
      [] b = "main" /\ l = 4 -> {169}         \* LDA #
      [] b = "main" /\ l = 5 -> AVals
      [] b = "main" /\ l = 6 -> {40}          \* PLP
      [] b = "main" /\ l = 7 -> Byte          \* the instruction under test
      [] b = "main" /\ l = 8 -> Operand1
      [] b = "main" /\ l = 9 -> Operand2
      [] b = "branch" /\ l = 0 -> {40}        \* PLP
      [] b = "branch" /\ l = 240 -> BranchOps
      [] b = "branch" /\ l = 241 -> Operand1
      [] OTHER -> {2}                         \* HLT

\* The vectors: NMI $0410, Reset $0400, IRQ/BRK $0420.
Vectors(l) ==
    CASE l = 250 -> {16}
      [] l = 251 -> {4}
      [] l = 252 -> {0}
      [] l = 253 -> {4}
      [] l = 254 -> {32}
      [] l = 255 -> {4}
      [] OTHER -> {2}

\* Zero page holds pointers into the data pages, the stack page status
\* bytes, the data pages $22 and $23 data.
ZpBytes == {34, 242}
StackBytes == {0, 255}
DataBytes == {146}

\* The tests of the harness (TestCPU): a test loads one instruction at
\* $0400 into a memory that is zero, sets registers and flags and writes
\* memory before it makes the CPU step.
\*   "acc":  a shift of the accumulator, over every A
\*   "imm":  ADC, SBC or CMP with an immediate operand, over every A
\*   "cpx":  CPX with an immediate operand, over every X
\*   "cpy":  CPY with an immediate operand, over every Y
\*   "zp":   a shift of the zero page byte $12, over every byte there
\*   "mem":  ADC, SBC, a compare or a shift in each addressing mode that
\*           reads memory, with operand bytes $12 $22
\*   "jmp":  JMP (oper) through the pointers $80FF and $8012
\*   "zpw":  an instruction of each indexed zero page mode, with the operand
\*           bytes $12, $EF and $FF and both index registers $10
\*   "pha":  PHA followed by PLA, over every A and over every S
\*   "php":  PHP followed by PLP, over every status
\*   "idx":  an instruction of each mode that adds an index to a 16-bit
\*           base, with the bases $2212, $22FE, $FF12 and $FFFE and both
\*           index registers $02
\*   "jsr":  JSR $0410 at $0400 or at $04FD, followed by the RTS at $0410
Tests ==
    {"acc", "imm", "cpx", "cpy", "zp", "mem", "jmp", "zpw", "pha", "php",
     "idx", "jsr"}

\* The instructions of the program of a test.
TestLen(b) == IF b \in {"pha", "php", "jsr"} THEN 2 ELSE 1

\* The instruction bytes (tt.mem) of the tests.
TestOps(b) ==
    CASE b = "acc" -> {10, 42, 74, 106}
      [] b = "imm" -> {105, 233, 201}
      [] b = "cpx" -> {224}
      [] b = "cpy" -> {192}
      [] b = "zp" -> {6, 38, 70, 102}
      [] b = "mem" -> {101, 117, 109, 125, 121, 97, 113,      \* ADC
                       229, 245, 237, 253, 249, 225, 241,     \* SBC
                       197, 213, 205, 221, 217, 193, 209,     \* CMP
                       228, 236, 196, 204,                    \* CPX, CPY
                       6, 22, 14, 30, 38, 54, 46, 62,         \* ASL, ROL
                       70, 86, 78, 94, 102, 118, 110, 126}    \* LSR, ROR
      [] b = "jmp" -> {108}
      [] b = "idx" -> {29, 30, 61, 62, 93, 94, 125, 126, 157, 188, 189,
                       221, 222, 253, 254,                    \* absolute,X
                       25, 57, 89, 121, 153, 185, 190, 217, 249,
                                                              \* absolute,Y
                       17, 49, 81, 113, 145, 177, 209, 241}   \* (indirect),Y
      [] b = "jsr" -> {32}
      [] b = "pha" -> {72}
      [] b = "php" -> {8}
      [] b = "zpw" -> {21, 22, 53, 54, 85, 86, 117, 118, 148, 149, 180,
                       181, 213, 214, 245, 246,               \* zeropage,X
                       150, 182,                              \* zeropage,Y
                       1, 33, 65, 97, 129, 161, 193, 225,     \* (indirect,X)
                       17, 49, 81, 113, 145, 177, 209, 241}   \* (indirect),Y

\* The immediate operands of the tests.
TestM ==
    {0, 1, 9, 10, 15, 16, 25, 80, 127, 128, 129, 144, 153, 154, 240, 255}

\* The flags a test sets (F): none, C, D, C and D, N V I Z, all.
TestP == {0, 1, 8, 9, 198, 207}

\* The registers and flags a test sets (A, X, Y, F, cpu.s) and the low byte
\* of the address in page $04 its instruction starts at.
TestRegs(b) ==
    CASE b \in {"acc", "imm"} ->
             {[a |-> r, x |-> 16, y |-> 32, p |-> f, s |-> 255, pcl |-> 0] :
                 r \in Byte, f \in TestP}
      [] b = "cpx" ->
             {[a |-> 128, x |-> r, y |-> 32, p |-> f, s |-> 255, pcl |-> 0] :
                 r \in Byte, f \in {0, 207}}
      [] b = "cpy" ->
             {[a |-> 128, x |-> 16, y |-> r, p |-> f, s |-> 255, pcl |-> 0] :
                 r \in Byte, f \in {0, 207}}
      [] b = "zp" ->
             {[a |-> 128, x |-> 16, y |-> 32, p |-> f, s |-> 255, pcl |-> 0] :
                 f \in TestP}
      [] b = "mem" ->
             {[a |-> 128, x |-> 16, y |-> 16, p |-> f, s |-> 255, pcl |-> 0] :
                 f \in {0, 9, 207}}
      [] b = "pha" ->
             {[a |-> r, x |-> 16, y |-> 16, p |-> f, s |-> t, pcl |-> 0] :
                 r \in Byte, t \in {0, 255}, f \in {0, 207}}
             \cup
             {[a |-> r, x |-> 16, y |-> 16, p |-> f, s |-> t, pcl |-> 0] :
                 r \in {0, 128}, t \in Byte, f \in {0, 207}}
      [] b = "php" ->
             {[a |-> 128, x |-> 16, y |-> 16, p |-> f, s |-> t, pcl |-> 0] :
                 f \in {g \in Byte : And(g, Or(flagU, flagB)) = 0},
                 t \in {0, 128, 255}}
      [] b = "idx" ->
             {[a |-> 128, x |-> 2, y |-> 2, p |-> f, s |-> 255, pcl |-> 0] :
                 f \in {0, 207}}
      [] b = "jsr" ->
             {[a |-> 128, x |-> 16, y |-> 16, p |-> f, s |-> t, pcl |-> l] :
                 f \in {0, 207}, t \in {0, 1, 255}, l \in {0, 253}}
      [] b \in {"jmp", "zpw"} ->
             {[a |-> 128, x |-> 16, y |-> 16, p |-> f, s |-> 255, pcl |-> 0] :
                 f \in {0, 207}}

\* The bytes the memory of a test may hold at (l, h): the instruction, the
\* bytes the test writes (W), and zero elsewhere (bus.Reset).
TestBytes(b, l, h) ==
    CASE h = 4 /\ l = 0 -> TestOps(b)
      [] h = 4 /\ l = 1 /\ b \in {"imm", "cpx", "cpy"} -> TestM
      [] h = 4 /\ l = 1 /\ b \in {"zp", "mem"} -> {18}
      [] h = 4 /\ l = 2 /\ b = "mem" -> {34}
      [] h = 4 /\ l = 1 /\ b = "jmp" -> {18, 255}
      [] h = 4 /\ l = 2 /\ b = "jmp" -> {128}
      [] h = 128 /\ l = 255 /\ b = "jmp" -> {170}
      [] h = 128 /\ l # 255 /\ b = "jmp" -> {85}
      [] h = 129 /\ b = "jmp" -> {119}
      [] h = 4 /\ l = 1 /\ b = "zpw" -> {18, 239, 255}
      [] h = 4 /\ l = 1 /\ b = "pha" -> {104}
      [] h = 4 /\ l = 253 /\ b = "jsr" -> {32}
      [] h = 4 /\ l \in {1, 254} /\ b = "jsr" -> {16}
      [] h = 4 /\ l \in {2, 255} /\ b = "jsr" -> {4}
      [] h = 4 /\ l = 16 /\ b = "jsr" -> {96}
      [] h = 4 /\ l = 1 /\ b = "idx" -> {18, 254}
      [] h = 4 /\ l = 2 /\ b = "idx" -> {34, 255}
      [] h = 0 /\ l \in {18, 254} /\ b = "idx" -> {18, 254}
      [] h = 0 /\ l \in {19, 255} /\ b = "idx" -> {34, 255}
      [] h = 0 /\ l \notin {18, 19, 254, 255} /\ b = "idx" -> DataBytes
      [] h \in {34, 35, 255} /\ b = "idx" -> DataBytes
      [] h = 4 /\ l = 1 /\ b = "php" -> {40}
      [] h = 0 /\ l = 0 /\ b = "zpw" -> {35}
      [] h = 0 /\ l # 0 /\ b = "zpw" -> {64}
      [] h = 1 /\ b = "zpw" -> {119}
      [] h \in {35, 119} /\ b = "zpw" -> DataBytes
      [] h = 0 /\ b = "zp" -> Byte
      [] h = 0 /\ b = "mem" -> ZpBytes
      [] h \in {34, 35} /\ b = "mem" -> DataBytes
      [] OTHER -> {0}

\* The bytes memory may hold at (l, h) before the CPU has read or written it.
ByteChoices(b, l, h) ==
    CASE b \in Tests -> TestBytes(b, l, h)
      [] h = 0 -> ZpBytes
      [] h = 1 -> StackBytes
      [] h = 4 -> Program(b, l)
      [] h \in {34, 35} -> DataBytes
      [] h = 255 -> Vectors(l)
      [] OTHER -> {2}

\* The addresses the caller hands to PC(lo, hi).
EntryPoints == {<<240, 4>>}

-----------------------------------------------------------------------------
(* The machine state one operation works on: the CPU's fields, the bus     *)
(* memory, the bus accesses made so far, and how the operation stands:     *)
(*   stop = "run"    running                                                *)
(*   stop = "need"   it read (need) whose byte is not drawn yet            *)
(*   stop = "panic"  the bus panicked with value pv                        *)
(* v, l, h, cy hold the values an operator returns, b and lo the locals    *)
(* of an instruction, (pcl0, pch0) the program counter tick saves; err and *)
(* msg are the error tick returns, op the opcode it dispatched on, ret the *)
(* cycle count Step returns.                                               *)

\* &CPU{bus: bus} over a memory of which no byte is drawn yet
Zero(b) ==
    [bus |-> b, a |-> 0, x |-> 0, y |-> 0, s |-> 0, p |-> 0, pcl |-> 0, pch |-> 0,
     cycles |-> 0, halted |-> FALSE, mem |-> [k \in {} |-> 0], trace |-> <<>>,
     stop |-> "run", need |-> <<0, 0>>, pv |-> "",
     err |-> "nil", msg |-> <<>>, op |-> -1, ret |-> 0,
     v |-> 0, l |-> 0, h |-> 0, cy |-> 0, b |-> 0, lo |-> 0,
     pcl0 |-> 0, pch0 |-> 0]

Machine ==
    [Zero(bus) EXCEPT !.a = a, !.x = x, !.y = y, !.s = s, !.p = p, !.pcl = pcl,
                 !.pch = pch, !.cycles = cycles, !.halted = halted, !.mem = mem]

Running(c) == c.stop = "run"

\* Bus.Read of the memory bus
busRead(c, l, h) ==
    IF ~Running(c) THEN c
    ELSE IF Unmapped(h) THEN [c EXCEPT !.stop = "panic", !.pv = PanicValue(h)]
    ELSE IF Addr(l, h) \notin DOMAIN c.mem
         THEN [c EXCEPT !.stop = "need", !.need = <<l, h>>]
    ELSE [c EXCEPT !.v = c.mem[Addr(l, h)],
                   !.trace = Append(@, <<"R", l, h, c.mem[Addr(l, h)]>>)]

\* Bus.Write of the memory bus
busWrite(c, l, h, b) ==
    IF ~Running(c) THEN c
    ELSE IF Unmapped(h) THEN [c EXCEPT !.stop = "panic", !.pv = PanicValue(h)]
    ELSE [c EXCEPT !.mem = (Addr(l, h) :> b) @@ @,
                   !.trace = Append(@, <<"W", l, h, b>>)]

-----------------------------------------------------------------------------
(* The closures of CPU.tick.  Each takes the machine and returns it.  The  *)
(* byte a closure takes or returns is passed in v, an address in (l, h), a *)
(* carry in cy; b holds a byte an instruction keeps for later.             *)

when(d, t, g) == IF d THEN t ELSE g

cost(c, n) == IF Running(c) THEN [c EXCEPT !.cycles = @ + n] ELSE c

\* cost(c), c the carry an addressing mode has returned
costCy(c) == cost(c, c.cy)

\* uadd returns <<sum, carry>>
uadd(m, n) == <<B(m + n), when(B(m + n) < n, 1, 0)>>

\* An ovfl that takes no sum for negative.
ovflUnsigned(w) == when(w >= 256, 1, 0)

\* ovfl of an int16: s>>8 > 0 is s >= 256
ovfl(w) == when(w >= 256, 1, when(w < 0, 255, 0))

\* sadd returns <<low byte, page offset>>
sadd(m, n) == <<B(m + n), ovfl(m + n)>>

inc(l, h) == <<uadd(l, 1)[1], B(h + uadd(l, 1)[2])>>

setPC(c, l, h) == IF Running(c) THEN [c EXCEPT !.pcl = l, !.pch = h] ELSE c

incPC(c) == setPC(c, inc(c.pcl, c.pch)[1], inc(c.pcl, c.pch)[2])

read(c, l, h) == busRead(cost(c, 1), l, h)

zread(c, l) == read(c, l, 0)

\* A write that costs no cycle.
writeFree(c, l, h, b) == busWrite(c, l, h, b)

write(c, l, h, b) == busWrite(cost(c, 1), l, h, b)

zwrite(c, l, b) == write(c, l, 0, b)

fetch(c) == incPC(read(c, c.pcl, c.pch))

\* The byte returned last becomes the low byte, the high byte of an
\* address, or the byte kept.
toL(c) == [c EXCEPT !.l = c.v]

toH(c) == [c EXCEPT !.h = c.v]

toB(c) == [c EXCEPT !.b = c.v]

\* The operands of the instructions: a register, the byte kept.
regA(c) == [c EXCEPT !.v = c.a]

regX(c) == [c EXCEPT !.v = c.x]

regY(c) == [c EXCEPT !.v = c.y]

regS(c) == [c EXCEPT !.v = c.s]

fromB(c) == [c EXCEPT !.v = c.b]

\* The byte arithmetic on an operand: + cpu.x, + cpu.y, + 1, - 1,
\* cpu.a | , cpu.a & , cpu.a ^
addX(c) == [c EXCEPT !.v = B(c.v + c.x)]

addY(c) == [c EXCEPT !.v = B(c.v + c.y)]

plus1(c) == [c EXCEPT !.v = B(c.v + 1)]

minus1(c) == [c EXCEPT !.v = B(c.v - 1)]

orA(c) == [c EXCEPT !.v = Or(c.a, c.v)]

andA(c) == [c EXCEPT !.v = And(c.a, c.v)]

eorA(c) == [c EXCEPT !.v = Xor(c.a, c.v)]

\* read(l, h), read(l+1, h), zread(l), zread of the byte returned last,
\* write(l, h, v), zwrite(l, v)
readLH(c) == read(c, c.l, c.h)

\* A second read that carries into the high byte.
readL1HCarry(c) == read(c, inc(c.l, c.h)[1], inc(c.l, c.h)[2])

readL1H(c) == read(c, B(c.l + 1), c.h)

zreadL(c) == zread(c, c.l)

zreadV(c) == zread(c, c.v)

writeLH(c) == write(c, c.l, c.h, c.v)

zwriteL(c) == zwrite(c, c.l, c.v)

\* zwrite(b, v)
zwriteB(c) == zwrite(c, c.b, c.v)

\* vread returns the vector in (l, h)
vread(c, l) == toH(read(toL(read(c, l, 255)), B(l + 1), 255))

setF(c, cond, f) == IF Running(c) THEN [c EXCEPT !.p = set(@, cond, f)] ELSE c

hasF(c, f) == has(c.p, f)

setC(c, cond) == setF(c, cond, flagC)

setI(c, cond) == setF(c, cond, flagI)

setN(c, b) == setF(c, b >= 128, flagN)

\* setNZ(v) returns v
\* A setNZ that clears V.
setNZClearsV(c) == setF(setF(setN(c, c.v), c.v = 0, flagZ), FALSE, flagV)

setNZ(c) == setF(setN(c, c.v), c.v = 0, flagZ)

setA(c) == IF Running(c) THEN [setNZ(c) EXCEPT !.a = c.v] ELSE c

setX(c) == IF Running(c) THEN [setNZ(c) EXCEPT !.x = c.v] ELSE c

setY(c) == IF Running(c) THEN [setNZ(c) EXCEPT !.y = c.v] ELSE c

decS(c) == IF Running(c) THEN [c EXCEPT !.s = B(@ - 1)] ELSE c

incS(c) == IF Running(c) THEN [c EXCEPT !.s = B(@ + 1)] ELSE c

\* A push that lowers S before it writes.
pushBelow(c, b) == write(decS(c), B(c.s - 1), 1, b)

\* push(b): write(cpu.s, 0x01, b); cpu.s--
pushB(c, b) == decS(write(c, c.s, 1, b))

\* push(v)
push(c) == pushB(c, c.v)

\* pop: cpu.s++; read(cpu.s, 0x01), s being raised already
readS(c) == read(c, c.s, 1)

\* A pull that reads before it raises S.
popBelow(c) == incS(readS(c))

pop(c) == readS(incS(c))

pushPCL(c) == pushB(c, c.pcl)

pushPC(c) == pushPCL(pushB(c, c.pch))

\* popPC returns the address in (l, h)
\* A popPC that pulls the high byte first.
popPCHigh(c) == toL(pop(toH(pop(c))))

popPC(c) == toH(pop(toL(pop(c))))

\* inc(l, h) of the address in (l, h)
\* An increment of the low byte only.
incLHLow(c) == [c EXCEPT !.l = B(c.l + 1)]

incLH(c) == [c EXCEPT !.l = inc(c.l, c.h)[1], !.h = inc(c.l, c.h)[2]]

\* setPC(l, h)
setPCLH(c) == setPC(c, c.l, c.h)

\* lo := v; setPC(lo, v)
toLo(c) == [c EXCEPT !.lo = c.v]

setPCLoV(c) == setPC(c, c.lo, c.v)

\* A php that pushes the status without B.
phpNoB(c) == pushB(c, Or(c.p, flagU))

php(c) == pushB(c, Or(Or(c.p, flagU), flagB))

\* A pull of the status that keeps every bit of the byte pulled.
toPRaw(c) == IF Running(c) THEN [c EXCEPT !.p = c.v] ELSE c

\* *cpu.p = F(v) & ^(flagU | flagB)
toP(c) == IF Running(c) THEN [c EXCEPT !.p = And(c.v, Not(Or(flagU, flagB)))] ELSE c

\* A plp that keeps every bit of the byte pulled.
plpRaw(c) == toPRaw(pop(c))

plp(c) == toP(pop(c))

\* cmp(a, b): setNZ(b - a); setC(b >= a), a being v
cmpNZ(c, d, cond) == setC(setNZ([c EXCEPT !.v = d]), cond)

\* A compare that subtracts the register from the operand.
cmpSwapped(c, r) == cmpNZ(c, B(c.v - r), c.v >= r)

cmp(c, r) == cmpNZ(c, B(r - c.v), r >= c.v)

cmpA(c) == cmp(c, c.a)

cmpX(c) == cmp(c, c.x)

cmpY(c) == cmp(c, c.y)

bit(c) ==
    setF(setF(setN(c, c.v), And(c.v, c.a) = 0, flagZ), And(c.v, 64) # 0, flagV)

\* The shifts set C from the operand and return setNZ of the result.
shifted(c, cond, r) == setNZ([setC(c, cond) EXCEPT !.v = r])

asl(c) == shifted(c, c.v >= 128, Shl(c.v, 1))

lsr(c) == shifted(c, c.v % 2 = 1, Shr(c.v, 1))

rol(c) == shifted(c, c.v >= 128, Or(Shl(c.v, 1), And(c.p, flagC)))

\* A rotate right that feeds the old carry into bit 0.
rorLow(c) == shifted(c, c.v % 2 = 1, Or(Shr(c.v, 1), And(c.p, flagC)))

ror(c) == shifted(c, c.v % 2 = 1, Or(Shr(c.v, 1), Shl(And(c.p, flagC), 7)))

\* abs returns the address in (l, h)
abs(c) == toH(fetch(toL(fetch(c))))

\* l, c := uadd(v, n)
addN(c, n) == [c EXCEPT !.l = uadd(c.v, n)[1], !.cy = uadd(c.v, n)[2]]

\* h := v + c
\* A carry that leaves the high byte $FF at $FF.
carryHStuck(c) == [c EXCEPT !.h = IF c.v = 255 THEN 255 ELSE c.v + c.cy]

carryH(c) == [c EXCEPT !.h = B(c.v + c.cy)]

\* absN returns the address in (l, h) and the carry in cy
absN(c, n) == carryH(fetch(addN(fetch(c), n)))

\* l, o := sadd(cpu.pcl, int8(v)); h := cpu.pch + o
relN(c) ==
    [c EXCEPT !.l = sadd(c.pcl, int8(c.v))[1],
              !.h = B(c.pch + sadd(c.pcl, int8(c.v))[2]),
              !.cy = sadd(c.pcl, int8(c.v))[2]]

\* zread(b), zread(b+1), b being the byte kept
zreadB(c) == zread(c, c.b)

\* A second pointer read that leaves the zero page after $FF.
zreadB1Carry(c) == read(c, inc(c.b, 0)[1], inc(c.b, 0)[2])

zreadB1(c) == zread(c, B(c.b + 1))

\* indY returns the address in (l, h) and the carry in cy
indY(c) == carryH(zreadB1(addN(zreadB(toB(fetch(c))), c.y)))

indX(c) == toH(zreadB1(toL(zreadB(toB(addX(fetch(c)))))))

\* An adjustment of the digits above ten only.
adjustLate(d) == B(d + when(d > 10, 6, 0))

\* The decimal adjustment of a digit of adc: += when(d&0xFF > 9, 6, 0)
adjust(d) == B(d + when(d > 9, 6, 0))

\* The digits of the decimal adc: l, h
adcL(c) == adjust(B(And(c.a, 15) + And(c.v, 15) + when(hasF(c, flagC), 1, 0)))

adcH(c, l) == adjust(B(Shr(c.a, 4) + Shr(c.v, 4) + when(l > 15, 1, 0)))

\* setC(cond); return r
carried(c, cond, r) == [setC(c, cond) EXCEPT !.v = r]

\* A decimal result that clears V.
adcDClearsV(c, l, h) ==
    carried(setF(c, FALSE, flagV), h > 15, Or(And(l, 15), And(Shl(h, 4), 240)))

adcD(c, l, h) == carried(c, h > 15, Or(And(l, 15), And(Shl(h, 4), 240)))

\* A sum that leaves the carry out.
adcWNoCarry(c) == c.a + c.v

\* The binary adc: w is the 16-bit sum
adcW(c) == c.a + c.v + when(hasF(c, flagC), 1, 0)

adcV(c, r) ==
    setF(c, And(And(Xor(c.a, r), Xor(c.v, r)), 128) # 0, flagV)

adcB(c, w) == [adcV(setC(c, w > 255), B(w)) EXCEPT !.v = B(w)]

\* adc(v) returns the sum in v
adc(c) ==
    IF hasF(c, flagD) THEN adcD(c, adcL(c), adcH(c, adcL(c)))
    ELSE adcB(c, adcW(c))

\* The decimal adjustment of a digit of sbc: -= when(d&0x10 != 0, 6, 0)
borrow(d) == B(d - when(And(d, 16) # 0, 6, 0))

\* The digits of the decimal sbc: l, h
sbcL(c) == borrow(B(And(c.a, 15) - And(c.v, 15) - when(hasF(c, flagC), 0, 1)))

sbcH(c, l) == borrow(B(Shr(c.a, 4) - Shr(c.v, 4) - when(And(l, 16) # 0, 1, 0)))

sbcD(c, l, h) == carried(c, h < 15, Or(And(l, 15), Shl(h, 4)))

\* An adc of the negated operand, -v.
adcNegated(c) == adc([c EXCEPT !.v = B(256 - c.v)])

\* adc(^v)
adcNot(c) == adc([c EXCEPT !.v = Not(c.v)])

\* sbc(v) returns the difference in v
sbc(c) ==
    IF hasF(c, flagD) THEN sbcD(c, sbcL(c), sbcH(c, sbcL(c)))
    ELSE adcNot(c)

\* The taken branch: cost(1 + when(o == 0, 0, 1)); setPC(l, h)
taken(c) == setPC(cost(c, 1 + when(c.cy = 0, 0, 1)), c.l, c.h)

branch(c, cond) == IF cond THEN taken(relN(fetch(c))) ELSE fetch(c)

\* cpu.halted = true
halt(c) == IF Running(c) THEN [c EXCEPT !.halted = TRUE] ELSE c

\* A TXS that transfers the other way.
txsBack(c) == IF Running(c) THEN [c EXCEPT !.x = c.s] ELSE c

\* cpu.s = cpu.x
txs(c) == IF Running(c) THEN [c EXCEPT !.s = c.x] ELSE c

-----------------------------------------------------------------------------
(* The switch of CPU.tick. *)

\* fmt.Errorf("m6502: invalid op code: %02X%02X: %02X", pch, pcl, v)
errorf(c) ==
    IF Running(c)
    THEN [c EXCEPT !.err = "invalid", !.msg = <<c.pch0, c.pcl0, c.v>>]
    ELSE c

\* A default case that reads at the program counter after the opcode fetch.
invalidAfterFetch(c) == errorf(read(c, c.pcl, c.pch))

\* the default case of the switch: the error names the program counter
\* saved and the byte read there anew
invalid(c) == errorf(read(c, c.pcl0, c.pch0))

\* the switch of CPU.tick on the opcode fetched, case by case in the order
\* of the source; each case is followed by its statements
dispatch(c, op) ==
    CASE op = 0 ->   \* 0x00 BRK
               \* fetch(); pushPC(); php(); setPC(vread(0xFE)); setI(true)
               setI(setPCLH(vread(php(pushPC(fetch(c))), 254)), TRUE)
      [] op = 32 ->   \* 0x20 JSR oper
               \* l := fetch(); pushPC(); setPC(l, fetch()); cost(1)
               cost(setPCLH(toH(fetch(pushPC(toL(fetch(c)))))), 1)
      [] op = 64 ->   \* 0x40 RTI
               \* plp(); setPC(popPC()); cost(3)
               cost(setPCLH(popPC(plp(c))), 3)
      [] op = 96 ->   \* 0x60 RTS
               \* setPC(inc(popPC())); cost(3)
               cost(setPCLH(incLH(popPC(c))), 3)
      [] op = 128 ->   \* 0x80 NOP
               \* cost(1)
               cost(c, 1)
      [] op = 160 ->   \* 0xA0 LDY #oper
               \* setY(fetch())
               setY(fetch(c))
      [] op = 192 ->   \* 0xC0 CPY #oper
               \* cmp(fetch(), cpu.y)
               cmpY(fetch(c))
      [] op = 224 ->   \* 0xE0 CPX #oper
               \* cmp(fetch(), cpu.x)
               cmpX(fetch(c))
      [] op = 1 ->   \* 0x01 ORA (oper,X)
               \* setA(cpu.a | read(indX())); cost(1)
               cost(setA(orA(readLH(indX(c)))), 1)
      [] op = 33 ->   \* 0x21 AND (oper,X)
               \* setA(cpu.a & read(indX())); cost(1)
               cost(setA(andA(readLH(indX(c)))), 1)
      [] op = 65 ->   \* 0x41 EOR (oper,X)
               \* setA(cpu.a ^ read(indX())); cost(1)
               cost(setA(eorA(readLH(indX(c)))), 1)
      [] op = 97 ->   \* 0x61 ADC (oper,X)
               \* setA(adc(read(indX()))); cost(1)
               cost(setA(adc(readLH(indX(c)))), 1)
      [] op = 129 ->   \* 0x81 STA (oper,X)
               \* l, h := indX(); write(l, h, cpu.a); cost(1)
               cost(writeLH(regA(indX(c))), 1)
      [] op = 161 ->   \* 0xA1 LDA (oper,X)
               \* setA(read(indX())); cost(1)
               cost(setA(readLH(indX(c))), 1)
      [] op = 193 ->   \* 0xC1 CMP (oper,X)
               \* cmp(read(indX()), cpu.a); cost(1)
               cost(cmpA(readLH(indX(c))), 1)
      [] op = 225 ->   \* 0xE1 SBC (oper,X)
               \* setA(sbc(read(indX()))); cost(1)
               cost(setA(sbc(readLH(indX(c)))), 1)
      [] op = 2 ->   \* 0x02 HLT
               \* cpu.halted = true
               halt(c)
      [] op = 34 ->   \* 0x22 HLT
               \* cpu.halted = true
               halt(c)
      [] op = 66 ->   \* 0x42 HLT
               \* cpu.halted = true
               halt(c)
      [] op = 98 ->   \* 0x62 HLT
               \* cpu.halted = true
               halt(c)
      [] op = 130 ->   \* 0x82 NOP
               \* cost(1)
               cost(c, 1)
      [] op = 162 ->   \* 0xA2 LDX #oper
               \* setX(fetch())
               setX(fetch(c))
      [] op = 194 ->   \* 0xC2 NOP
               \* cost(1)
               cost(c, 1)
      [] op = 226 ->   \* 0xE2 NOP
               \* cost(1)
               cost(c, 1)
      [] op = 4 ->   \* 0x04 NOP
               \* cost(2)
               cost(c, 2)
      [] op = 36 ->   \* 0x24 BIT oper
               \* bit(zread(fetch()))
               bit(zreadV(fetch(c)))
      [] op = 68 ->   \* 0x44 NOP
               \* cost(2)
               cost(c, 2)
      [] op = 100 ->   \* 0x64 NOP
               \* cost(2)
               cost(c, 2)
      [] op = 132 ->   \* 0x84 STY oper
               \* zwrite(fetch(), cpu.y)
               zwriteL(regY(toL(fetch(c))))
      [] op = 164 ->   \* 0xA4 LDY oper
               \* setY(zread(fetch()))
               setY(zreadV(fetch(c)))
      [] op = 196 ->   \* 0xC4 CPY oper
               \* cmp(zread(fetch()), cpu.y)
               cmpY(zreadV(fetch(c)))
      [] op = 228 ->   \* 0xE4 CPX oper
               \* cmp(zread(fetch()), cpu.x)
               cmpX(zreadV(fetch(c)))
      [] op = 5 ->   \* 0x05 ORA oper
               \* setA(cpu.a | zread(fetch()))
               setA(orA(zreadV(fetch(c))))
      [] op = 37 ->   \* 0x25 AND oper
               \* setA(cpu.a & zread(fetch()))
               setA(andA(zreadV(fetch(c))))
      [] op = 69 ->   \* 0x45 EOR oper
               \* setA(cpu.a ^ zread(fetch()))
               setA(eorA(zreadV(fetch(c))))
      [] op = 101 ->   \* 0x65 ADC oper
               \* setA(adc(zread(fetch())))
               setA(adc(zreadV(fetch(c))))
      [] op = 133 ->   \* 0x85 STA oper
               \* zwrite(fetch(), cpu.a)
               zwriteL(regA(toL(fetch(c))))
      [] op = 165 ->   \* 0xA5 LDA oper
               \* setA(zread(fetch()))
               setA(zreadV(fetch(c)))
      [] op = 197 ->   \* 0xC5 CMP oper
               \* cmp(zread(fetch()), cpu.a)
               cmpA(zreadV(fetch(c)))
      [] op = 229 ->   \* 0xE5 SBC oper
               \* setA(sbc(zread(fetch())))
               setA(sbc(zreadV(fetch(c))))
      [] op = 6 ->   \* 0x06 ASL oper
               \* b := fetch(); zwrite(b, asl(zread(b))); cost(1)
               cost(zwriteB(asl(zreadB(toB(fetch(c))))), 1)
      [] op = 38 ->   \* 0x26 ROL oper
               \* b := fetch(); zwrite(b, rol(zread(b))); cost(1)
               cost(zwriteB(rol(zreadB(toB(fetch(c))))), 1)
      [] op = 70 ->   \* 0x46 LSR oper
               \* b := fetch(); zwrite(b, lsr(zread(b))); cost(1)
               cost(zwriteB(lsr(zreadB(toB(fetch(c))))), 1)
      [] op = 102 ->   \* 0x66 ROR oper
               \* b := fetch(); zwrite(b, ror(zread(b))); cost(1)
               cost(zwriteB(ror(zreadB(toB(fetch(c))))), 1)
      [] op = 134 ->   \* 0x86 STX oper
               \* zwrite(fetch(), cpu.x)
               zwriteL(regX(toL(fetch(c))))
      [] op = 166 ->   \* 0xA6 LDX oper
               \* setX(zread(fetch()))
               setX(zreadV(fetch(c)))
      [] op = 198 ->   \* 0xC6 DEC oper
               \* b := fetch(); zwrite(b, setNZ(zread(b)-1)); cost(1)
               cost(zwriteB(setNZ(minus1(zreadB(toB(fetch(c)))))), 1)
      [] op = 230 ->   \* 0xE6 INC oper
               \* b := fetch(); zwrite(b, setNZ(zread(b)+1)); cost(1)
               cost(zwriteB(setNZ(plus1(zreadB(toB(fetch(c)))))), 1)
      [] op = 8 ->   \* 0x08 PHP
               \* php(); cost(1)
               cost(php(c), 1)
      [] op = 40 ->   \* 0x28 PLP
               \* plp(); cost(2)
               cost(plp(c), 2)
      [] op = 72 ->   \* 0x48 PHA
               \* push(cpu.a); cost(1)
               cost(push(regA(c)), 1)
      [] op = 104 ->   \* 0x68 PLA
               \* setA(pop()); cost(2)
               cost(setA(pop(c)), 2)
      [] op = 136 ->   \* 0x88 DEY
               \* setY(cpu.y - 1); cost(1)
               cost(setY(minus1(regY(c))), 1)
      [] op = 168 ->   \* 0xA8 TAY
               \* setY(cpu.a); cost(1)
               cost(setY(regA(c)), 1)
      [] op = 200 ->   \* 0xC8 INY
               \* setY(cpu.y + 1); cost(1)
               cost(setY(plus1(regY(c))), 1)
      [] op = 232 ->   \* 0xE8 INX
               \* setX(cpu.x + 1); cost(1)
               cost(setX(plus1(regX(c))), 1)
      [] op = 9 ->   \* 0x09 ORA #oper
               \* setA(cpu.a | fetch())
               setA(orA(fetch(c)))
      [] op = 41 ->   \* 0x29 AND #oper
               \* setA(cpu.a & fetch())
               setA(andA(fetch(c)))
      [] op = 73 ->   \* 0x49 EOR #oper
               \* setA(cpu.a ^ fetch())
               setA(eorA(fetch(c)))
      [] op = 105 ->   \* 0x69 ADC #oper
               \* setA(adc(fetch()))
               setA(adc(fetch(c)))
      [] op = 137 ->   \* 0x89 NOP
               \* cost(1)
               cost(c, 1)
      [] op = 169 ->   \* 0xA9 LDA #oper
               \* setA(fetch())
               setA(fetch(c))
      [] op = 201 ->   \* 0xC9 CMP #oper
               \* cmp(fetch(), cpu.a)
               cmpA(fetch(c))
      [] op = 233 ->   \* 0xE9 SBC #oper
               \* setA(sbc(fetch()))
               setA(sbc(fetch(c)))
      [] op = 10 ->   \* 0x0A ASL A
               \* setA(asl(cpu.a)); cost(1)
               cost(setA(asl(regA(c))), 1)
      [] op = 42 ->   \* 0x2A ROL A
               \* setA(rol(cpu.a)); cost(1)
               cost(setA(rol(regA(c))), 1)
      [] op = 74 ->   \* 0x4A LSR A
               \* setA(lsr(cpu.a)); cost(1)
               cost(setA(lsr(regA(c))), 1)
      [] op = 106 ->   \* 0x6A ROR A
               \* setA(ror(cpu.a)); cost(1)
               cost(setA(ror(regA(c))), 1)
      [] op = 138 ->   \* 0x8A TXA
               \* setA(cpu.x); cost(1)
               cost(setA(regX(c)), 1)
      [] op = 170 ->   \* 0xAA TAX
               \* setX(cpu.a); cost(1)
               cost(setX(regA(c)), 1)
      [] op = 202 ->   \* 0xCA DEX
               \* setX(cpu.x - 1); cost(1)
               cost(setX(minus1(regX(c))), 1)
      [] op = 234 ->   \* 0xEA NOP
               \* cost(1)
               cost(c, 1)
      [] op = 12 ->   \* 0x0C NOP
               \* cost(3)
               cost(c, 3)
      [] op = 44 ->   \* 0x2C BIT oper
               \* bit(read(abs()))
               bit(readLH(abs(c)))
      [] op = 76 ->   \* 0x4C JMP oper
               \* setPC(abs())
               setPCLH(abs(c))
      [] op = 108 ->   \* 0x6C JMP (oper)
               \* l, h := abs(); lo := read(l, h); setPC(lo, read(l+1, h))
               setPCLoV(readL1H(toLo(readLH(abs(c)))))
      [] op = 140 ->   \* 0x8C STY oper
               \* write(fetch(), fetch(), cpu.y)
               writeLH(regY(toH(fetch(toL(fetch(c))))))
      [] op = 172 ->   \* 0xAC LDY oper
               \* setY(read(abs()))
               setY(readLH(abs(c)))
      [] op = 204 ->   \* 0xCC CPY oper
               \* cmp(read(abs()), cpu.y)
               cmpY(readLH(abs(c)))
      [] op = 236 ->   \* 0xEC CPX oper
               \* cmp(read(abs()), cpu.x)
               cmpX(readLH(abs(c)))
      [] op = 13 ->   \* 0x0D ORA oper
               \* setA(cpu.a | read(abs()))
               setA(orA(readLH(abs(c))))
      [] op = 45 ->   \* 0x2D AND oper
               \* setA(cpu.a & read(abs()))
               setA(andA(readLH(abs(c))))
      [] op = 77 ->   \* 0x4D EOR oper
               \* setA(cpu.a ^ read(abs()))
               setA(eorA(readLH(abs(c))))
      [] op = 109 ->   \* 0x6D ADC oper
               \* setA(adc(read(abs())))
               setA(adc(readLH(abs(c))))
      [] op = 141 ->   \* 0x8D STA oper
               \* write(fetch(), fetch(), cpu.a)
               writeLH(regA(toH(fetch(toL(fetch(c))))))
      [] op = 173 ->   \* 0xAD LDA oper
               \* setA(read(abs()))
               setA(readLH(abs(c)))
      [] op = 205 ->   \* 0xCD CMP oper
               \* cmp(read(abs()), cpu.a)
               cmpA(readLH(abs(c)))
      [] op = 237 ->   \* 0xED SBC oper
               \* setA(sbc(read(abs())))
               setA(sbc(readLH(abs(c))))
      [] op = 14 ->   \* 0x0E ASL oper
               \* l, h := abs(); b := read(l, h); write(l, h, asl(b)); cost(1)
               cost(writeLH(asl(fromB(toB(readLH(abs(c)))))), 1)
      [] op = 46 ->   \* 0x2E ROL oper
               \* l, h := abs(); b := read(l, h); write(l, h, rol(b)); cost(1)
               cost(writeLH(rol(fromB(toB(readLH(abs(c)))))), 1)
      [] op = 78 ->   \* 0x4E LSR oper
               \* l, h := abs(); b := read(l, h); write(l, h, lsr(b)); cost(1)
               cost(writeLH(lsr(fromB(toB(readLH(abs(c)))))), 1)
      [] op = 110 ->   \* 0x6E ROR oper
               \* l, h := abs(); b := read(l, h); write(l, h, ror(b)); cost(1)
               cost(writeLH(ror(fromB(toB(readLH(abs(c)))))), 1)
      [] op = 142 ->   \* 0x8E STX oper
               \* write(fetch(), fetch(), cpu.x)
               writeLH(regX(toH(fetch(toL(fetch(c))))))
      [] op = 174 ->   \* 0xAE LDX oper
               \* setX(read(abs()))
               setX(readLH(abs(c)))
      [] op = 206 ->   \* 0xCE DEC oper
               \* l, h := abs(); b := read(l, h); write(l, h, setNZ(b-1));
               \*   cost(1)
               cost(writeLH(setNZ(minus1(fromB(toB(readLH(abs(c))))))), 1)
      [] op = 238 ->   \* 0xEE INC oper
               \* l, h := abs(); b := read(l, h); write(l, h, setNZ(b+1));
               \*   cost(1)
               cost(writeLH(setNZ(plus1(fromB(toB(readLH(abs(c))))))), 1)
      [] op = 16 ->   \* 0x10 BPL oper
               \* branch(!hasF(flagN))
               branch(c, ~hasF(c, flagN))
      [] op = 48 ->   \* 0x30 BMI oper
               \* branch(hasF(flagN))
               branch(c, hasF(c, flagN))
      [] op = 80 ->   \* 0x50 BVC oper
               \* branch(!hasF(flagV))
               branch(c, ~hasF(c, flagV))
      [] op = 112 ->   \* 0x70 BVS oper
               \* branch(hasF(flagV))
               branch(c, hasF(c, flagV))
      [] op = 144 ->   \* 0x90 BCC oper
               \* branch(!hasF(flagC))
               branch(c, ~hasF(c, flagC))
      [] op = 176 ->   \* 0xB0 BCS oper
               \* branch(hasF(flagC))
               branch(c, hasF(c, flagC))
      [] op = 208 ->   \* 0xD0 BNE oper
               \* branch(!hasF(flagZ))
               branch(c, ~hasF(c, flagZ))
      [] op = 240 ->   \* 0xF0 BEQ oper
               \* branch(hasF(flagZ))
               branch(c, hasF(c, flagZ))
      [] op = 17 ->   \* 0x11 ORA (oper),Y
               \* l, h, c := indY(); setA(cpu.a | read(l, h)); cost(c)
               costCy(setA(orA(readLH(indY(c)))))
      [] op = 49 ->   \* 0x31 AND (oper),Y
               \* l, h, c := indY(); setA(cpu.a & read(l, h)); cost(c)
               costCy(setA(andA(readLH(indY(c)))))
      [] op = 81 ->   \* 0x51 EOR (oper),Y
               \* l, h, c := indY(); setA(cpu.a ^ read(l, h)); cost(c)
               costCy(setA(eorA(readLH(indY(c)))))
      [] op = 113 ->   \* 0x71 ADC (oper),Y
               \* l, h, c := indY(); setA(adc(read(l, h))); cost(c)
               costCy(setA(adc(readLH(indY(c)))))
      [] op = 145 ->   \* 0x91 STA (oper),Y
               \* l, h, _ := indY(); write(l, h, cpu.a); cost(1)
               cost(writeLH(regA(indY(c))), 1)
      [] op = 177 ->   \* 0xB1 LDA (oper),Y
               \* l, h, c := indY(); setA(read(l, h)); cost(c)
               costCy(setA(readLH(indY(c))))
      [] op = 209 ->   \* 0xD1 CMP (oper),Y
               \* l, h, c := indY(); cmp(read(l, h), cpu.a); cost(c)
               costCy(cmpA(readLH(indY(c))))
      [] op = 241 ->   \* 0xF1 SBC (oper),Y
               \* l, h, c := indY(); setA(sbc(read(l, h))); cost(c)
               costCy(setA(sbc(readLH(indY(c)))))
      [] op = 18 ->   \* 0x12 HLT
               \* cpu.halted = true
               halt(c)
      [] op = 50 ->   \* 0x32 HLT
               \* cpu.halted = true
               halt(c)
      [] op = 82 ->   \* 0x52 HLT
               \* cpu.halted = true
               halt(c)
      [] op = 114 ->   \* 0x72 HLT
               \* cpu.halted = true
               halt(c)
      [] op = 146 ->   \* 0x92 HLT
               \* cpu.halted = true
               halt(c)
      [] op = 178 ->   \* 0xB2 HLT
               \* cpu.halted = true
               halt(c)
      [] op = 210 ->   \* 0xD2 HLT
               \* cpu.halted = true
               halt(c)
      [] op = 242 ->   \* 0xF2 HLT
               \* cpu.halted = true
               halt(c)
      [] op = 20 ->   \* 0x14 NOP
               \* cost(3)
               cost(c, 3)
      [] op = 52 ->   \* 0x34 NOP
               \* cost(3)
               cost(c, 3)
      [] op = 84 ->   \* 0x54 NOP
               \* cost(3)
               cost(c, 3)
      [] op = 116 ->   \* 0x74 NOP
               \* cost(3)
               cost(c, 3)
      [] op = 148 ->   \* 0x94 STY oper,X
               \* zwrite(fetch()+cpu.x, cpu.y); cost(1)
               cost(zwriteL(regY(toL(addX(fetch(c))))), 1)
      [] op = 180 ->   \* 0xB4 LDY oper,X
               \* setY(zread(fetch() + cpu.x)); cost(1)
               cost(setY(zreadV(addX(fetch(c)))), 1)
      [] op = 212 ->   \* 0xD4 NOP
               \* cost(3)
               cost(c, 3)
      [] op = 244 ->   \* 0xF4 NOP
               \* cost(3)
               cost(c, 3)
      [] op = 21 ->   \* 0x15 ORA oper,X
               \* setA(cpu.a | zread(fetch()+cpu.x)); cost(1)
               cost(setA(orA(zreadV(addX(fetch(c))))), 1)
      [] op = 53 ->   \* 0x35 AND oper,X
               \* setA(cpu.a & zread(fetch()+cpu.x)); cost(1)
               cost(setA(andA(zreadV(addX(fetch(c))))), 1)
      [] op = 85 ->   \* 0x55 EOR oper,X
               \* setA(cpu.a ^ zread(fetch()+cpu.x)); cost(1)
               cost(setA(eorA(zreadV(addX(fetch(c))))), 1)
      [] op = 117 ->   \* 0x75 ADC oper,X
               \* setA(adc(zread(fetch() + cpu.x))); cost(1)
               cost(setA(adc(zreadV(addX(fetch(c))))), 1)
      [] op = 149 ->   \* 0x95 STA oper,X
               \* zwrite(fetch()+cpu.x, cpu.a); cost(1)
               cost(zwriteL(regA(toL(addX(fetch(c))))), 1)
      [] op = 181 ->   \* 0xB5 LDA oper,X
               \* setA(zread(fetch() + cpu.x)); cost(1)
               cost(setA(zreadV(addX(fetch(c)))), 1)
      [] op = 213 ->   \* 0xD5 CMP oper,X
               \* cmp(zread(fetch()+cpu.x), cpu.a); cost(1)
               cost(cmpA(zreadV(addX(fetch(c)))), 1)
      [] op = 245 ->   \* 0xF5 SBC oper,X
               \* setA(sbc(zread(fetch() + cpu.x))); cost(1)
               cost(setA(sbc(zreadV(addX(fetch(c))))), 1)
      [] op = 22 ->   \* 0x16 ASL oper,X
               \* l := fetch() + cpu.x; zwrite(l, asl(zread(l))); cost(2)
               cost(zwriteL(asl(zreadL(toL(addX(fetch(c)))))), 2)
      [] op = 54 ->   \* 0x36 ROL oper,X
               \* l := fetch() + cpu.x; zwrite(l, rol(zread(l))); cost(2)
               cost(zwriteL(rol(zreadL(toL(addX(fetch(c)))))), 2)
      [] op = 86 ->   \* 0x56 LSR oper,X
               \* l := fetch() + cpu.x; zwrite(l, lsr(zread(l))); cost(2)
               cost(zwriteL(lsr(zreadL(toL(addX(fetch(c)))))), 2)
      [] op = 118 ->   \* 0x76 ROR oper,X
               \* l := fetch() + cpu.x; zwrite(l, ror(zread(l))); cost(2)
               cost(zwriteL(ror(zreadL(toL(addX(fetch(c)))))), 2)
      [] op = 150 ->   \* 0x96 STX oper,Y
               \* zwrite(fetch()+cpu.y, cpu.x); cost(1)
               cost(zwriteL(regX(toL(addY(fetch(c))))), 1)
      [] op = 182 ->   \* 0xB6 LDX oper,Y
               \* setX(zread(fetch() + cpu.y)); cost(1)
               cost(setX(zreadV(addY(fetch(c)))), 1)
      [] op = 214 ->   \* 0xD6 DEC oper,X
               \* l := fetch() + cpu.x; zwrite(l, setNZ(zread(l)-1)); cost(2)
               cost(zwriteL(setNZ(minus1(zreadL(toL(addX(fetch(c))))))), 2)
      [] op = 246 ->   \* 0xF6 INC oper,X
               \* l := fetch() + cpu.x; zwrite(l, setNZ(zread(l)+1)); cost(2)
               cost(zwriteL(setNZ(plus1(zreadL(toL(addX(fetch(c))))))), 2)
      [] op = 24 ->   \* 0x18 CLC
               \* setC(false); cost(1)
               cost(setC(c, FALSE), 1)
      [] op = 56 ->   \* 0x38 SEC
               \* setC(true); cost(1)
               cost(setC(c, TRUE), 1)
      [] op = 88 ->   \* 0x58 CLI
               \* setI(false); cost(1)
               cost(setI(c, FALSE), 1)
      [] op = 120 ->   \* 0x78 SEI
               \* setI(true); cost(1)
               cost(setI(c, TRUE), 1)
      [] op = 152 ->   \* 0x98 TYA
               \* setA(cpu.y); cost(1)
               cost(setA(regY(c)), 1)
      [] op = 184 ->   \* 0xB8 CLV
               \* setF(false, flagV); cost(1)
               cost(setF(c, FALSE, flagV), 1)
      [] op = 216 ->   \* 0xD8 CLD
               \* setF(false, flagD); cost(1)
               cost(setF(c, FALSE, flagD), 1)
      [] op = 248 ->   \* 0xF8 SED
               \* setF(true, flagD); cost(1)
               cost(setF(c, TRUE, flagD), 1)
      [] op = 25 ->   \* 0x19 ORA oper,Y
               \* l, h, c := absN(cpu.y); setA(cpu.a | read(l, h)); cost(c)
               costCy(setA(orA(readLH(absN(c, c.y)))))
      [] op = 57 ->   \* 0x39 AND oper,Y
               \* l, h, c := absN(cpu.y); setA(cpu.a & read(l, h)); cost(c)
               costCy(setA(andA(readLH(absN(c, c.y)))))
      [] op = 89 ->   \* 0x59 EOR oper,Y
               \* l, h, c := absN(cpu.y); setA(cpu.a ^ read(l, h)); cost(c)
               costCy(setA(eorA(readLH(absN(c, c.y)))))
      [] op = 121 ->   \* 0x79 ADC oper,Y
               \* l, h, c := absN(cpu.y); setA(adc(read(l, h))); cost(c)
               costCy(setA(adc(readLH(absN(c, c.y)))))
      [] op = 153 ->   \* 0x99 STA oper,Y
               \* l, h, _ := absN(cpu.y); write(l, h, cpu.a); cost(1)
               cost(writeLH(regA(absN(c, c.y))), 1)
      [] op = 185 ->   \* 0xB9 LDA oper,Y
               \* l, h, c := absN(cpu.y); setA(read(l, h)); cost(c)
               costCy(setA(readLH(absN(c, c.y))))
      [] op = 217 ->   \* 0xD9 CMP oper,Y
               \* l, h, c := absN(cpu.y); cmp(read(l, h), cpu.a); cost(c)
               costCy(cmpA(readLH(absN(c, c.y))))
      [] op = 249 ->   \* 0xF9 SBC oper,Y
               \* l, h, c := absN(cpu.y); setA(sbc(read(l, h))); cost(c)
               costCy(setA(sbc(readLH(absN(c, c.y)))))
      [] op = 26 ->   \* 0x1A NOP
               \* cost(1)
               cost(c, 1)
      [] op = 58 ->   \* 0x3A NOP
               \* cost(1)
               cost(c, 1)
      [] op = 90 ->   \* 0x5A NOP
               \* cost(1)
               cost(c, 1)
      [] op = 122 ->   \* 0x7A NOP
               \* cost(1)
               cost(c, 1)
      [] op = 154 ->   \* 0x9A TXS
               \* cpu.s = cpu.x; cost(1)
               cost(txs(c), 1)
      [] op = 186 ->   \* 0xBA TSX
               \* setX(cpu.s); cost(1)
               cost(setX(regS(c)), 1)
      [] op = 218 ->   \* 0xDA NOP
               \* cost(1)
               cost(c, 1)
      [] op = 250 ->   \* 0xFA NOP
               \* cost(1)
               cost(c, 1)
      [] op = 28 ->   \* 0x1C NOP
               \* cost(3)
               cost(c, 3)
      [] op = 60 ->   \* 0x3C NOP
               \* cost(3)
               cost(c, 3)
      [] op = 92 ->   \* 0x5C NOP
               \* cost(3)
               cost(c, 3)
      [] op = 124 ->   \* 0x7C NOP
               \* cost(3)
               cost(c, 3)
      [] op = 188 ->   \* 0xBC LDY oper,X
               \* l, h, c := absN(cpu.x); setY(read(l, h)); cost(c)
               costCy(setY(readLH(absN(c, c.x))))
      [] op = 220 ->   \* 0xDC NOP
               \* cost(3)
               cost(c, 3)
      [] op = 252 ->   \* 0xFC NOP
               \* cost(3)
               cost(c, 3)
      [] op = 29 ->   \* 0x1D ORA oper,X
               \* l, h, c := absN(cpu.x); setA(cpu.a | read(l, h)); cost(c)
               costCy(setA(orA(readLH(absN(c, c.x)))))
      [] op = 61 ->   \* 0x3D AND oper,X
               \* l, h, c := absN(cpu.x); setA(cpu.a & read(l, h)); cost(c)
               costCy(setA(andA(readLH(absN(c, c.x)))))
      [] op = 93 ->   \* 0x5D EOR oper,X
               \* l, h, c := absN(cpu.x); setA(cpu.a ^ read(l, h)); cost(c)
               costCy(setA(eorA(readLH(absN(c, c.x)))))
      [] op = 125 ->   \* 0x7D ADC oper,X
               \* l, h, c := absN(cpu.x); setA(adc(read(l, h))); cost(c)
               costCy(setA(adc(readLH(absN(c, c.x)))))
      [] op = 157 ->   \* 0x9D STA oper,X
               \* l, h, _ := absN(cpu.x); write(l, h, cpu.a); cost(1)
               cost(writeLH(regA(absN(c, c.x))), 1)
      [] op = 189 ->   \* 0xBD LDA oper,X
               \* l, h, c := absN(cpu.x); setA(read(l, h)); cost(c)
               costCy(setA(readLH(absN(c, c.x))))
      [] op = 221 ->   \* 0xDD CMP oper,X
               \* l, h, c := absN(cpu.x); cmp(read(l, h), cpu.a); cost(c)
               costCy(cmpA(readLH(absN(c, c.x))))
      [] op = 253 ->   \* 0xFD SBC oper,X
               \* l, h, c := absN(cpu.x); setA(sbc(read(l, h))); cost(c)
               costCy(setA(sbc(readLH(absN(c, c.x)))))
      [] op = 30 ->   \* 0x1E ASL oper,X
               \* l, h, _ := absN(cpu.x); write(l, h, asl(read(l, h)));
               \*   cost(2)
               cost(writeLH(asl(readLH(absN(c, c.x)))), 2)
      [] op = 62 ->   \* 0x3E ROL oper,X
               \* l, h, _ := absN(cpu.x); write(l, h, rol(read(l, h)));
               \*   cost(2)
               cost(writeLH(rol(readLH(absN(c, c.x)))), 2)
      [] op = 94 ->   \* 0x5E LSR oper,X
               \* l, h, _ := absN(cpu.x); write(l, h, lsr(read(l, h)));
               \*   cost(2)
               cost(writeLH(lsr(readLH(absN(c, c.x)))), 2)
      [] op = 126 ->   \* 0x7E ROR oper,X
               \* l, h, _ := absN(cpu.x); write(l, h, ror(read(l, h)));
               \*   cost(2)
               cost(writeLH(ror(readLH(absN(c, c.x)))), 2)
      [] op = 190 ->   \* 0xBE LDX oper,Y
               \* l, h, c := absN(cpu.y); setX(read(l, h)); cost(c)
               costCy(setX(readLH(absN(c, c.y))))
      [] op = 222 ->   \* 0xDE DEC oper,X
               \* l, h, _ := absN(cpu.x); write(l, h, setNZ(read(l, h)-1));
               \*   cost(2)
               cost(writeLH(setNZ(minus1(readLH(absN(c, c.x))))), 2)
      [] op = 254 ->   \* 0xFE INC oper,X
               \* l, h, _ := absN(cpu.x); write(l, h, setNZ(read(l, h)+1));
               \*   cost(2)
               cost(writeLH(setNZ(plus1(readLH(absN(c, c.x))))), 2)
      [] OTHER -> invalid(c)   \* default

\* switch fetch(): v is the opcode fetched
decode(c) == IF Running(c) THEN dispatch([c EXCEPT !.op = c.v], c.v) ELSE c

\* if cpu.halted { return ErrHalted }; return nil
halts(c) ==
    IF Running(c) /\ c.err = "nil" /\ c.halted
    THEN [c EXCEPT !.err = "ErrHalted"]
    ELSE c

\* cpu.cycles = 0; pcl, pch := cpu.pcl, cpu.pch
enter(c) == [c EXCEPT !.cycles = 0, !.pcl0 = c.pcl, !.pch0 = c.pch]

\* CPU.tick
tick(c) == halts(decode(fetch(enter(c))))

-----------------------------------------------------------------------------
(* The public operations. *)

\* cpu.bus.Write(cpu.s, 0x01, b); cpu.s--
stack(c, b) == decS(busWrite(c, c.s, 1, b))

stackPCL(c) == stack(c, c.pcl)

\* A status pushed as PHP pushes it, with B set.
stackPB(c) == stack(c, Or(Or(c.p, flagU), flagB))

stackP(c) == stack(c, Or(c.p, flagU))

\* A vector load that leaves I alone.
vectorOpen(c) ==
    IF Running(c) THEN [c EXCEPT !.pcl = c.l, !.pch = c.h] ELSE c

\* cpu.pcl, cpu.pch = l, h; *cpu.p |= flagI
vector(c) ==
    IF Running(c)
    THEN [c EXCEPT !.pcl = c.l, !.pch = c.h, !.p = Or(@, flagI)]
    ELSE c

\* An interrupt that pushes the status with B set.
interruptB(c) == vector(stackPB(stackPCL(stack(c, c.pch))))

\* CPU.interrupt(l, h)
interrupt(c) == vector(stackP(stackPCL(stack(c, c.pch))))

\* CPU.NMI
nmi(c) == interrupt(toH(busRead(toL(busRead(c, 250, 255)), 251, 255)))

\* An IRQ that is not masked.
irqUnmasked(c) == interrupt(toH(busRead(toL(busRead(c, 254, 255)), 255, 255)))

\* CPU.IRQ
irq(c) ==
    IF ~has(c.p, flagI)
    THEN interrupt(toH(busRead(toL(busRead(c, 254, 255)), 255, 255)))
    ELSE c

\* cpu.s, cpu.a, cpu.x, cpu.y = 0xFF, 0x00, 0x00, 0x00
registers(c) == [c EXCEPT !.s = 255, !.a = 0, !.x = 0, !.y = 0]

\* cpu.pcl = v
toPCL(c) == IF Running(c) THEN [c EXCEPT !.pcl = c.v] ELSE c

\* cpu.pch = v
toPCH(c) == IF Running(c) THEN [c EXCEPT !.pch = c.v] ELSE c

\* A clearing that keeps the flags.
clearedKeepsP(c) ==
    IF Running(c) THEN [c EXCEPT !.halted = FALSE, !.cycles = 0] ELSE c

\* cpu.p = &flg; cpu.halted = false; cpu.cycles = 0
cleared(c) ==
    IF Running(c) THEN [c EXCEPT !.p = 0, !.halted = FALSE, !.cycles = 0] ELSE c

\* A Reset that keeps the flags.
resetKeepsP(c) ==
    clearedKeepsP(toPCH(busRead(toPCL(busRead(registers(c), 252, 255)), 253, 255)))

\* CPU.Reset
reset(c) ==
    cleared(toPCH(busRead(toPCL(busRead(registers(c), 252, 255)), 253, 255)))

\* The deferred recover() of CPU.Step: a panic whose value is a string
\* becomes the error; r.(string) on any other value panics anew, and that
\* panic leaves Step.
recover(c) ==
    IF c.pv = "string"
    THEN [c EXCEPT !.stop = "run", !.err = "bus", !.msg = <<c.pv>>, !.ret = 0]
    ELSE c

\* What Step returns after tick: (0, err) or (cpu.cycles, nil)
returns(r) ==
    IF r.stop = "panic" THEN recover(r)
    ELSE IF r.stop = "need" THEN r
    ELSE IF r.err # "nil" THEN [r EXCEPT !.ret = 0]
    ELSE [r EXCEPT !.ret = r.cycles]

\* A Step that does not look at the halt latch.
stepUnlatched(c) == returns(tick(c))

\* CPU.Step
step(c) ==
    IF c.halted THEN [c EXCEPT !.err = "ErrHalted", !.ret = 0]
    ELSE returns(tick(c))

exec(call, c) ==
    CASE call = "Step" -> step(c)
      [] call = "NMI" -> nmi(c)
      [] call = "IRQ" -> irq(c)
      [] call = "Reset" -> reset(c)

\* The results a call can have: where it reads a byte of memory that is not
\* drawn yet, one result for each byte the address may hold.
RECURSIVE Outcomes(_, _)
RECURSIVE Drawn(_, _, _)
Drawn(call, c, r) ==
    IF r.stop = "need"
    THEN UNION { Outcomes(call, [c EXCEPT !.mem = (Addr(r.need[1], r.need[2]) :> b) @@ @])
                 : b \in ByteChoices(c.bus, r.need[1], r.need[2]) }
    ELSE {r}

Outcomes(call, c) == Drawn(call, c, exec(call, c))

\* The registers of a machine.
Regs(c) ==
    [a |-> c.a, x |-> c.x, y |-> c.y, s |-> c.s, p |-> c.p,
     pcl |-> c.pcl, pch |-> c.pch, halted |-> c.halted]

\* What the caller sees of a call made on machine c with result r: the
\* registers before the call, the cycles and the error it returned (err is
\* "panic" where the call ended in a panic), the opcode Step dispatched on
\* (-1 where it fetched none) and the bus accesses the call made.
Seen(call, c, r) ==
    [call |-> call, pre |-> Regs(c), ret |-> r.ret, op |-> r.op,
     err |-> IF r.stop = "panic" THEN "panic" ELSE r.err,
     msg |-> IF r.stop = "panic" THEN <<r.pv>> ELSE r.msg,
     trace |-> r.trace]

Commit(call, r) ==
    /\ a' = r.a /\ x' = r.x /\ y' = r.y /\ s' = r.s /\ p' = r.p
    /\ bus' = bus
    /\ pcl' = r.pcl /\ pch' = r.pch /\ cycles' = r.cycles
    /\ halted' = r.halted /\ mem' = r.mem
    /\ last' = Seen(call, Machine, r)

\* New(bus)
Init ==
    /\ \E b \in Buses : \E r \in Outcomes("Reset", Zero(b)) :
          /\ bus = b
          /\ a = r.a /\ x = r.x /\ y = r.y /\ s = r.s /\ p = r.p
          /\ pcl = r.pcl /\ pch = r.pch /\ cycles = r.cycles
          /\ halted = r.halted /\ mem = r.mem
          /\ last = Seen("New", Zero(b), r)
    /\ nsteps = 0
    /\ ncalls = 0

Step ==
    /\ nsteps < MaxSteps
    /\ \E r \in Outcomes("Step", Machine) : Commit("Step", r)
    /\ nsteps' = nsteps + 1
    /\ UNCHANGED ncalls

NMI ==
    /\ ncalls < MaxCalls
    /\ \E r \in Outcomes("NMI", Machine) : Commit("NMI", r)
    /\ ncalls' = ncalls + 1
    /\ UNCHANGED nsteps

IRQ ==
    /\ ncalls < MaxCalls
    /\ \E r \in Outcomes("IRQ", Machine) : Commit("IRQ", r)
    /\ ncalls' = ncalls + 1
    /\ UNCHANGED nsteps

Reset ==
    /\ ncalls < MaxCalls
    /\ \E r \in Outcomes("Reset", Machine) : Commit("Reset", r)
    /\ ncalls' = ncalls + 1
    /\ UNCHANGED nsteps

\* CPU.PC
PC ==
    /\ ncalls < MaxCalls
    /\ \E e \in EntryPoints :
          /\ pcl' = e[1]
          /\ pch' = e[2]
    /\ last' = Seen("PC", Machine, Machine)
    /\ ncalls' = ncalls + 1
    /\ UNCHANGED <<bus, a, x, y, s, p, cycles, halted, mem, nsteps>>

Next == Step \/ NMI \/ IRQ \/ Reset \/ PC

Spec == Init /\ [][Next]_vars

-----------------------------------------------------------------------------
(* The test harness (TestCPU): New, Reset and PC(0x00, 0x04), the test's    *)
(* init function, then Step.                                               *)

\* cpu.Reset(); cpu.PC(0x00, 0x04); tt.init()
TestInit ==
    /\ \E b \in Tests : \E r \in Outcomes("Reset", Zero(b)) : \E t \in TestRegs(b) :
          /\ bus = b
          /\ a = t.a /\ x = t.x /\ y = t.y /\ s = t.s /\ p = t.p
          /\ pcl = t.pcl /\ pch = 4 /\ cycles = r.cycles
          /\ halted = r.halted /\ mem = r.mem
          /\ last = Seen("init", Zero(b), r)
    /\ nsteps = 0
    /\ ncalls = 0

\* cost, err := cpu.Step()
TestStep ==
    /\ nsteps < TestSteps + TestLen(bus) - 1
    /\ \E r \in Outcomes("Step", Machine) : Commit("Step", r)
    /\ nsteps' = nsteps + 1
    /\ UNCHANGED ncalls

TestSpec == TestInit /\ [][TestStep]_vars

-----------------------------------------------------------------------------
(* The opcode table of OPCODES.md: for each opcode of a row its mnemonic,  *)
(* its addressing mode, its cycle count and the mark on the count.         *)

\* column 2, the mnemonic; "invalid" for 0x9C, 0x9E and an opcode of no row
DocMnemonic(op) ==
    CASE op \in {97, 101, 105, 109, 113, 117, 121, 125} -> "ADC"
      [] op \in {33, 37, 41, 45, 49, 53, 57, 61} -> "AND"
      [] op \in {6, 10, 14, 22, 30} -> "ASL"
      [] op \in {144} -> "BCC"
      [] op \in {176} -> "BCS"
      [] op \in {240} -> "BEQ"
      [] op \in {36, 44} -> "BIT"
      [] op \in {48} -> "BMI"
      [] op \in {208} -> "BNE"
      [] op \in {16} -> "BPL"
      [] op \in {0} -> "BRK"
      [] op \in {80} -> "BVC"
      [] op \in {112} -> "BVS"
      [] op \in {24} -> "CLC"
      [] op \in {216} -> "CLD"
      [] op \in {88} -> "CLI"
      [] op \in {184} -> "CLV"
      [] op \in {193, 197, 201, 205, 209, 213, 217, 221} -> "CMP"
      [] op \in {224, 228, 236} -> "CPX"
      [] op \in {192, 196, 204} -> "CPY"
      [] op \in {198, 206, 214, 222} -> "DEC"
      [] op \in {202} -> "DEX"
      [] op \in {136} -> "DEY"
      [] op \in {65, 69, 73, 77, 81, 85, 89, 93} -> "EOR"
      [] op \in {2, 18, 34, 50, 66, 82, 98, 114, 146, 178, 210, 242} -> "HLT"
      [] op \in {230, 238, 246, 254} -> "INC"
      [] op \in {232} -> "INX"
      [] op \in {200} -> "INY"
      [] op \in {76, 108} -> "JMP"
      [] op \in {32} -> "JSR"
      [] op \in {161, 165, 169, 173, 177, 181, 185, 189} -> "LDA"
      [] op \in {162, 166, 174, 182, 190} -> "LDX"
      [] op \in {160, 164, 172, 180, 188} -> "LDY"
      [] op \in {70, 74, 78, 86, 94} -> "LSR"
      [] op \in {4, 12, 20, 26, 28, 52, 58, 60, 68, 84, 90, 92, 100, 116,
                  122, 124, 128, 130, 137, 194, 212, 218, 220, 226, 234, 244,
                  250, 252} -> "NOP"
      [] op \in {1, 5, 9, 13, 17, 21, 25, 29} -> "ORA"
      [] op \in {72} -> "PHA"
      [] op \in {8} -> "PHP"
      [] op \in {104} -> "PLA"
      [] op \in {40} -> "PLP"
      [] op \in {38, 42, 46, 54, 62} -> "ROL"
      [] op \in {102, 106, 110, 118, 126} -> "ROR"
      [] op \in {64} -> "RTI"
      [] op \in {96} -> "RTS"
      [] op \in {225, 229, 233, 237, 241, 245, 249, 253} -> "SBC"
      [] op \in {56} -> "SEC"
      [] op \in {248} -> "SED"
      [] op \in {120} -> "SEI"
      [] op \in {129, 133, 141, 145, 149, 153, 157} -> "STA"
      [] op \in {134, 142, 150} -> "STX"
      [] op \in {132, 140, 148} -> "STY"
      [] op \in {170} -> "TAX"
      [] op \in {168} -> "TAY"
      [] op \in {186} -> "TSX"
      [] op \in {138} -> "TXA"
      [] op \in {154} -> "TXS"
      [] op \in {152} -> "TYA"
      [] OTHER -> "invalid"

\* column 3, the addressing mode; "" where the row gives none
DocMode(op) ==
    CASE op \in {0, 8, 24, 26, 40, 56, 58, 64, 72, 88, 90, 96, 104, 120, 122,
                  136, 138, 152, 154, 168, 170, 184, 186, 200, 202, 216, 218,
                  232, 234, 248, 250} -> "implied"
      [] op \in {1, 33, 65, 97, 129, 161, 193, 225} -> "(indirect,X)"
      [] op \in {4, 5, 6, 36, 37, 38, 68, 69, 70, 100, 101, 102, 132, 133,
                  134, 164, 165, 166, 196, 197, 198, 228, 229, 230} -> "zeropage"
      [] op \in {9, 41, 73, 105, 128, 130, 137, 160, 162, 169, 192, 194, 201,
                  224, 226, 233} -> "immediate"
      [] op \in {10, 42, 74, 106} -> "accumulator"
      [] op \in {12, 13, 14, 32, 44, 45, 46, 76, 77, 78, 109, 110, 140, 141,
                  142, 172, 173, 174, 204, 205, 206, 236, 237, 238} -> "absolute"
      [] op \in {16, 48, 80, 112, 144, 176, 208, 240} -> "relative"
      [] op \in {17, 49, 81, 113, 145, 177, 209, 241} -> "(indirect),Y"
      [] op \in {20, 21, 22, 52, 53, 54, 84, 85, 86, 116, 117, 118, 148, 149,
                  180, 181, 212, 213, 214, 244, 245, 246} -> "zeropage,X"
      [] op \in {25, 57, 89, 121, 153, 185, 190, 217, 249} -> "absolute,Y"
      [] op \in {28, 29, 30, 60, 61, 62, 92, 93, 94, 124, 125, 126, 157, 188,
                  189, 220, 221, 222, 252, 253, 254} -> "absolute,X"
      [] op \in {108} -> "indirect"
      [] op \in {150, 182} -> "zeropage,Y"
      [] OTHER -> ""

\* column 5, the cycle count without its mark; 0 where the row gives none
DocCycles(op) ==
    CASE op \in {2, 18, 34, 50, 66, 82, 98, 114, 146, 178, 210, 242} -> 1
      [] op \in {9, 10, 16, 24, 26, 41, 42, 48, 56, 58, 73, 74, 80, 88, 90,
                  105, 106, 112, 120, 122, 128, 130, 136, 137, 138, 144, 152,
                  154, 160, 162, 168, 169, 170, 176, 184, 186, 192, 194, 200,
                  201, 202, 208, 216, 218, 224, 226, 232, 233, 234, 240, 248,
                  250} -> 2
      [] op \in {4, 5, 8, 36, 37, 68, 69, 72, 76, 100, 101, 132, 133, 134,
                  164, 165, 166, 196, 197, 228, 229} -> 3
      [] op \in {12, 13, 20, 21, 25, 28, 29, 40, 44, 45, 52, 53, 57, 60, 61,
                  77, 84, 85, 89, 92, 93, 104, 109, 116, 117, 121, 124, 125,
                  140, 141, 142, 148, 149, 150, 172, 173, 174, 180, 181, 182,
                  185, 188, 189, 190, 204, 205, 212, 213, 217, 220, 221, 236,
                  237, 244, 245, 249, 252, 253} -> 4
      [] op \in {6, 17, 38, 49, 70, 81, 102, 108, 113, 153, 157, 177, 198,
                  209, 230, 241} -> 5
      [] op \in {1, 14, 22, 32, 33, 46, 54, 65, 78, 86, 96, 97, 110, 118,
                  129, 145, 161, 193, 206, 214, 225, 238, 246} -> 6
      [] op \in {0, 30, 62, 64, 94, 126, 222, 254} -> 7
      [] OTHER -> 0

\* the opcodes whose count is marked *: add 1 if page boundary is crossed
DocPageMark ==
    {17, 25, 28, 29, 49, 57, 60, 61, 81, 89, 92, 93, 113, 121,
     124, 125, 177, 185, 188, 189, 190, 209, 217, 220, 221, 241,
     249, 252, 253}

\* the opcodes whose count is marked **: add 1 if branch occurs on same
\* page, add 2 if branch occurs to different page
DocBranchMark ==
    {16, 48, 80, 112, 144, 176, 208, 240}

\* column 4, the flags the row does not mark with '-', as the sum of their
\* bits: every flag for "from stack" and for a row that gives no flags
DocFlags(op) ==
    CASE op \in {4, 8, 12, 16, 20, 26, 28, 32, 48, 52, 58, 60, 68, 72, 76,
                  80, 84, 90, 92, 96, 100, 108, 112, 116, 122, 124, 128,
                  129, 130, 132, 133, 134, 137, 140, 141, 142, 144, 145,
                  148, 149, 150, 153, 154, 157, 176, 194, 208, 212, 218,
                  220, 226, 234, 240, 244, 250, 252} -> 0
      [] op \in {24, 56} -> 1
      [] op \in {0, 88, 120} -> 4
      [] op \in {216, 248} -> 8
      [] op \in {184} -> 64
      [] op \in {1, 5, 9, 13, 17, 21, 25, 29, 33, 37, 41, 45, 49, 53, 57,
                  61, 65, 69, 73, 77, 81, 85, 89, 93, 104, 136, 138, 152,
                  160, 161, 162, 164, 165, 166, 168, 169, 170, 172, 173,
                  174, 177, 180, 181, 182, 185, 186, 188, 189, 190, 198,
                  200, 202, 206, 214, 222, 230, 232, 238, 246, 254} -> 130
      [] op \in {6, 10, 14, 22, 30, 38, 42, 46, 54, 62, 70, 74, 78, 86, 94,
                  102, 106, 110, 118, 126, 192, 193, 196, 197, 201, 204,
                  205, 209, 213, 217, 221, 224, 228, 236} -> 131
      [] op \in {36, 44} -> 194
      [] op \in {97, 101, 105, 109, 113, 117, 121, 125, 225, 229, 233, 237,
                  241, 245, 249, 253} -> 195
      [] op \in {40, 64} -> 207
      [] OTHER -> 207

-----------------------------------------------------------------------------
(* What the properties below read of the last call.                        *)

\* The last call was a Step that returned no error.
StepDone == last.call = "Step" /\ last.err = "nil"

\* The program counter before the last call, and now.
PCBefore == Addr(last.pre.pcl, last.pre.pch)

PCNow == Addr(pcl, pch)

\* The bytes the memory may hold at (l, h): the byte drawn or written
\* there, or any byte of the bus where the CPU has not touched the address.
ByteAt(l, h) ==
    IF Addr(l, h) \in DOMAIN mem THEN {mem[Addr(l, h)]}
    ELSE ByteChoices(bus, l, h)

\* The first operand byte of the instruction of the last Step.
OperandAt ==
    LET n == inc(last.pre.pcl, last.pre.pch) IN ByteAt(n[1], n[2])

\* The low byte of the base address an indexed instruction adds its index
\* register to: the operand byte, or for (indirect),Y the zero page byte
\* the operand points to.
BaseLow(op) ==
    IF DocMode(op) = "(indirect),Y"
    THEN UNION {ByteAt(z, 0) : z \in OperandAt}
    ELSE OperandAt

\* The index register the addressing mode adds.
IndexOf(op) == IF DocMode(op) = "absolute,X" THEN last.pre.x ELSE last.pre.y

\* The flag condition a branch opcode tests (OPCODES.md, "Branch on ...").
Tested(op, f) ==
    CASE op = 16 -> ~has(f, flagN)
      [] op = 48 -> has(f, flagN)
      [] op = 80 -> ~has(f, flagV)
      [] op = 112 -> has(f, flagV)
      [] op = 144 -> ~has(f, flagC)
      [] op = 176 -> has(f, flagC)
      [] op = 208 -> ~has(f, flagZ)
      [] op = 240 -> has(f, flagZ)
      [] OTHER -> FALSE

\* The instruction length the addressing mode gives.
DocLength(op) ==
    CASE DocMode(op) \in {"implied", "accumulator"} -> 1
      [] DocMode(op) \in {"immediate", "zeropage", "zeropage,X", "zeropage,Y",
                          "(indirect,X)", "(indirect),Y", "relative"} -> 2
      [] DocMode(op) \in {"absolute", "absolute,X", "absolute,Y"} -> 3
      [] OTHER -> 0

-----------------------------------------------------------------------------
(* The cycle counts, the branches and the program counter.                 *)

\* C1: a Step that completes without error on an opcode whose documented
\* cycle count carries no mark (the HLT opcodes aside) returns exactly that
\* count: stores and read-modify-write instructions cost the same whether
\* or not the index addition crosses a page.
C1_UnmarkedCycles ==
    (/\ StepDone
     /\ DocMnemonic(last.op) \notin {"invalid", "HLT"}
     /\ last.op \notin DocPageMark \cup DocBranchMark)
        => last.ret = DocCycles(last.op)

\* C1 happens: STA oper,X has crossed a page and returned 5.
C1_Witness ==
    /\ StepDone
    /\ last.op = 157
    /\ \E lo \in OperandAt : lo + last.pre.x > 255
    /\ last.ret = 5

\* C2: a successful Step on an opcode whose count is marked * returns the
\* count when adding the index register to the low byte of the base address
\* does not carry, and the count plus one when it carries.
C2_PageMarkedCycles ==
    (StepDone /\ last.op \in DocPageMark)
        => \A lo \in BaseLow(last.op) :
              last.ret = DocCycles(last.op)
                         + (IF lo + IndexOf(last.op) > 255 THEN 1 ELSE 0)

\* C3: a branch opcode at address a whose condition is false leaves PC at
\* a+2 and returns 2; one whose condition is true leaves PC at a+2 plus the
\* signed displacement (mod 65536) and returns 3 where the target is in the
\* page of a+2, and 4 where it is not.
C3_Branch ==
    (StepDone /\ last.op \in DocBranchMark)
        => \A d \in OperandAt :
              LET next == (PCBefore + 2) % 65536
                  target == (next + int8(d)) % 65536
              IN  IF Tested(last.op, last.pre.p)
                  THEN /\ PCNow = target
                       /\ last.ret = IF target \div 256 = next \div 256
                                     THEN 3 ELSE 4
                  ELSE /\ PCNow = next
                       /\ last.ret = 2

\* C3 happens: a BEQ at $04F0 has branched forward into page $05.
C3_Witness ==
    /\ StepDone
    /\ last.op = 240
    /\ PCBefore = Addr(240, 4)
    /\ PCNow = Addr(4, 5)
    /\ last.ret = 4

\* C4: after a successful Step on an opcode other than a taken branch, JMP,
\* JSR, RTS, RTI or BRK, PC is the PC before the Step plus the instruction
\* length the opcode's addressing mode gives (mod 65536), the NOP opcodes
\* with an operand included.
C4_Length ==
    (/\ StepDone
     /\ DocMnemonic(last.op) \notin {"invalid", "JMP", "JSR", "RTS", "RTI", "BRK"}
     /\ ~Tested(last.op, last.pre.p))
        => PCNow = (PCBefore + DocLength(last.op)) % 65536

-----------------------------------------------------------------------------
(* The halt latch and the errors of Step.                                  *)

\* The registers now.
RegsNow == Regs(Machine)

\* The last call was a Step that fetched an opcode or failed on the bus.
Fetched ==
    /\ last.call = "Step"
    /\ Len(last.trace) > 0 \/ last.err \in {"bus", "panic"}

NoMnemonic == {156, 158} \cup {op \in Byte : op % 16 \in {3, 7, 11, 15}}

\* C6: Step returns the invalid-opcode error exactly for the opcodes of no
\* mnemonic in OPCODES.md; the error names the PC before the Step and the
\* opcode, the Step returns 0 cycles and the CPU is not halted, so that the
\* next Step fetches again.
C6_InvalidOpcode ==
    /\ (last.call = "Step" /\ last.op # -1 /\ last.err \notin {"bus", "panic"})
          => /\ last.err = "invalid" <=> DocMnemonic(last.op) = "invalid"
             /\ last.err = "invalid" <=> last.op \in NoMnemonic
    /\ (last.call = "Step" /\ last.err = "invalid")
          => /\ last.msg = <<last.pre.pch, last.pre.pcl, last.op>>
             /\ last.ret = 0
             /\ ~halted
    /\ (last.call = "Step" /\ ~last.pre.halted) => Fetched

\* C6 happens: the opcode at $0407 was 0x9C, and the next Step has fetched
\* and executed the opcode at $0408.
C6_Witness ==
    /\ Addr(7, 4) \in DOMAIN mem
    /\ mem[Addr(7, 4)] = 156
    /\ last.call = "Step"
    /\ PCBefore = Addr(8, 4)
    /\ last.op \in Operand1
    /\ last.trace[1] = <<"R", 8, 4, last.op>>

\* C7: a bus panic during a Step does not leave Step, whatever its value:
\* Step returns an error that carries the value's message, and the CPU is
\* not halted.
C7_PanicRecovered ==
    last.call = "Step"
        => /\ last.err # "panic"
           /\ last.err = "bus" => (last.msg # <<>> /\ last.ret = 0 /\ ~halted)

-----------------------------------------------------------------------------
(* Reset and the interrupts.                                               *)

\* The bus accesses of a call that are writes.
Writes == {k \in 1..Len(last.trace) : last.trace[k][1] = "W"}

\* The registers Reset leaves over the vector (l, h).
ResetRegs(l, h) ==
    [a |-> 0, x |-> 0, y |-> 0, s |-> 255, p |-> 0,
     pcl |-> l, pch |-> h, halted |-> FALSE]

\* C8: Reset and New leave S=0xFF, A=X=Y=0, P=0, PC = the reset vector and
\* the latch clear, and write nothing on the bus; a Reset of a CPU that a
\* Reset has left changes nothing.
C8_Reset ==
    /\ (last.call \in {"Reset", "New"} /\ last.err # "panic")
          => /\ Addr(252, 255) \in DOMAIN mem /\ Addr(253, 255) \in DOMAIN mem
             /\ RegsNow = ResetRegs(mem[Addr(252, 255)], mem[Addr(253, 255)])
             /\ Writes = {}
    /\ (/\ last.call = "Reset"
        /\ last.err # "panic"
        /\ last.pre = ResetRegs(last.pre.pcl, last.pre.pch)
        /\ <<last.pre.pcl, last.pre.pch>> = <<mem[Addr(252, 255)], mem[Addr(253, 255)]>>)
          => RegsNow = last.pre

\* C8 happens: a Reset of a halted CPU whose registers a program has set.
C8_Witness ==
    /\ last.call = "Reset"
    /\ last.pre.halted
    /\ last.pre.x = 16
    /\ last.pre.p # 0
    /\ last.pre.s # 255
    /\ ~halted

\* What an interrupt through the vector at ($FF00 + v) does: it reads the
\* vector, stores PCH at $0100+S, PCL at $0100+(S-1) and P with U set at
\* $0100+(S-2), leaves S three lower, sets I, loads PC from the vector and
\* leaves A, X, Y and the other flags alone.
Interrupted(v) ==
    /\ Len(last.trace) = 5
    /\ last.trace[1][1] = "R" /\ <<last.trace[1][2], last.trace[1][3]>> = <<v, 255>>
    /\ last.trace[2][1] = "R" /\ <<last.trace[2][2], last.trace[2][3]>> = <<v + 1, 255>>
    /\ last.trace[3] = <<"W", last.pre.s, 1, last.pre.pch>>
    /\ last.trace[4] = <<"W", B(last.pre.s - 1), 1, last.pre.pcl>>
    /\ last.trace[5] = <<"W", B(last.pre.s - 2), 1, Or(last.pre.p, flagU)>>
    /\ ~has(last.trace[5][4], flagB)
    /\ mem[Addr(last.pre.s, 1)] = last.pre.pch
    /\ mem[Addr(B(last.pre.s - 1), 1)] = last.pre.pcl
    /\ mem[Addr(B(last.pre.s - 2), 1)] = Or(last.pre.p, flagU)
    /\ RegsNow = [last.pre EXCEPT !.s = B(@ - 3), !.p = Or(@, flagI),
                                  !.pcl = mem[Addr(v, 255)],
                                  !.pch = mem[Addr(v + 1, 255)]]
    /\ <<pcl, pch>> = <<last.trace[1][4], last.trace[2][4]>>

\* C9: NMI, with I set or clear, pushes PCH, PCL and P with U set and B
\* clear, leaves S three lower (mod 256), sets I, loads PC from $FFFA/$FFFB
\* and leaves A, X, Y and the other flags unchanged.
C9_NMI == last.call = "NMI" => Interrupted(250)

\* C9 happens: an NMI with I set and S = 0, where the pushes wrap.
C9_Witness ==
    /\ last.call = "NMI"
    /\ has(last.pre.p, flagI)
    /\ last.pre.s = 0
    /\ s = 253

\* C10: an IRQ while I is set changes no register and makes no bus access;
\* an IRQ while I is clear does what NMI does, through $FFFE/$FFFF.
C10_IRQ ==
    last.call = "IRQ"
        => IF has(last.pre.p, flagI)
           THEN RegsNow = last.pre /\ last.trace = <<>>
           ELSE Interrupted(254)

\* C10 happens: an IRQ while I is set, and before it a program has run.
C10_Witness ==
    /\ last.call = "IRQ"
    /\ has(last.pre.p, flagI)
    /\ last.pre.x = 16
    /\ RegsNow = last.pre

-----------------------------------------------------------------------------
(* BRK and the stack.                                                      *)

\* The address n bytes after the instruction of the last Step, as <<l, h>>.
After(n) == <<(PCBefore + n) % 256, ((PCBefore + n) \div 256) % 256>>

\* The k-th bus access of the last call.
Access(k) == last.trace[k]

C12_NoUB == (p \div 16) % 4 = 0

\* C12 happens: a PLP has pulled the byte $FF.
C12_Witness ==
    /\ StepDone
    /\ last.op = 40
    /\ Len(last.trace) = 2
    /\ Access(2) = <<"R", B(last.pre.s + 1), 1, 255>>
    /\ p = 207

\* The pushes and the pulls the last call makes, and the bus access of the
\* call that is the first of them.
StackPushes ==
    CASE last.call = "NMI" -> 3
      [] last.call = "IRQ" /\ (last.pre.p \div 4) % 2 = 0 -> 3
      [] last.call = "Step" /\ last.op \in {8, 72} -> 1     \* PHP, PHA
      [] last.call = "Step" /\ last.op = 32 -> 2            \* JSR
      [] last.call = "Step" /\ last.op = 0 -> 3             \* BRK
      [] OTHER -> 0

StackPulls ==
    CASE last.call = "Step" /\ last.op \in {40, 104} -> 1   \* PLP, PLA
      [] last.call = "Step" /\ last.op = 96 -> 2            \* RTS
      [] last.call = "Step" /\ last.op = 64 -> 3            \* RTI
      [] OTHER -> 0

StackStart ==
    IF last.call = "Step" /\ last.op \in {8, 72, 40, 104, 96, 64} THEN 2 ELSE 3

\* C13: every stack access of Step, NMI or IRQ is in page $01: a push
\* writes at ($01, S) and then lowers S by one mod 256, a pull raises S by
\* one mod 256 and then reads ($01, S).
C13_StackPage ==
    (last.call \in {"Step", "NMI", "IRQ"} /\ last.err = "nil") =>
        /\ \A k \in 0..(StackPushes - 1) :
              /\ Access(StackStart + k)[1] = "W"
              /\ Access(StackStart + k)[2] = B(last.pre.s - k)
              /\ Access(StackStart + k)[3] = 1
        /\ \A k \in 0..(StackPulls - 1) :
              /\ Access(StackStart + k)[1] = "R"
              /\ Access(StackStart + k)[2] = B(last.pre.s + 1 + k)
              /\ Access(StackStart + k)[3] = 1
        /\ (StackPushes > 0) => s = B(last.pre.s - StackPushes)
        /\ (StackPulls > 0) => s = B(last.pre.s + StackPulls)

\* C13 happens: a JSR with S = 0 pushes at $0100 and $01FF.
C13_Witness ==
    /\ StepDone
    /\ last.op = 32
    /\ last.pre.s = 0
    /\ Access(3)[2] = 0
    /\ Access(4)[2] = 255
    /\ s = 254

\* C14: after a successful Step S differs from its value before by -1 for
\* PHA and PHP, +1 for PLA and PLP, -2 for JSR, +2 for RTS, -3 for BRK and
\* +3 for RTI (mod 256), equals X after TXS and is unchanged for every
\* other opcode.
C14_StackPointer ==
    StepDone =>
        s = CASE last.op \in {8, 72} -> B(last.pre.s - 1)
              [] last.op \in {40, 104} -> B(last.pre.s + 1)
              [] last.op = 32 -> B(last.pre.s - 2)
              [] last.op = 96 -> B(last.pre.s + 2)
              [] last.op = 0 -> B(last.pre.s - 3)
              [] last.op = 64 -> B(last.pre.s + 3)
              [] last.op = 154 -> last.pre.x
              [] OTHER -> last.pre.s

\* C14 happens: an RTI with S = 253 after an interrupt, where S wraps to 0.
C14_Witness ==
    /\ StepDone
    /\ last.op = 64
    /\ last.pre.s = 253
    /\ s = 0

-----------------------------------------------------------------------------
(* The arithmetic, the compares and the shifts.                            *)

\* Bit k (a power of two) of the byte f is set.
Flag(f, k) == (f \div k) % 2 = 1

\* A byte read as a signed 8-bit value.
Signed(n) == IF n >= 128 THEN n - 256 ELSE n

\* The byte the last bus read of the last call has returned: the operand
\* of an instruction that reads one.
Operand == last.trace[Len(last.trace)][4]

\* The carry before the last call, as a number.
CarryIn == last.pre.p % 2

AdcOps == {105, 101, 117, 109, 125, 121, 97, 113}

SbcOps == {233, 229, 245, 237, 253, 249, 225, 241}

\* What the binary addition of A, m and the carry leaves in A, N, V, Z, C.
Added(m) ==
    /\ a = (last.pre.a + m + CarryIn) % 256
    /\ Flag(p, 1) <=> last.pre.a + m + CarryIn > 255
    /\ Flag(p, 64) <=> (Signed(last.pre.a) + Signed(m) + CarryIn) \notin -128..127
    /\ Flag(p, 2) <=> a = 0
    /\ Flag(p, 128) <=> a >= 128

\* C15: after ADC with D clear A is (A+M+C) mod 256, C is set iff
\* A+M+C > 255, V iff the signed sum of A, M and C lies outside
\* [-128, 127], Z iff the new A is 0, and N is bit 7 of the new A.
C15_AdcBinary ==
    (StepDone /\ last.op \in AdcOps /\ ~Flag(last.pre.p, 8)) => Added(Operand)

\* C15 happens: $7F + $01 + 1 overflows into $81.
C15_Witness ==
    /\ StepDone
    /\ last.op = 105
    /\ last.pre.a = 127
    /\ last.pre.p = 1
    /\ Operand = 1
    /\ a = 129
    /\ p = 192

\* C16: after SBC with D clear A and the flags N, V, Z, C are those ADC
\* leaves for the operand 255 - M and the same carry: A is
\* (A - M - (1-C)) mod 256, C is set iff A >= M + (1-C), and V iff the
\* signed difference lies outside [-128, 127].
C16_SbcBinary ==
    (StepDone /\ last.op \in SbcOps /\ ~Flag(last.pre.p, 8)) =>
        /\ Added(255 - Operand)
        /\ a = (last.pre.a - Operand - (1 - CarryIn)) % 256
        /\ Flag(p, 1) <=> last.pre.a >= Operand + (1 - CarryIn)
        /\ Flag(p, 64) <=>
              (Signed(last.pre.a) - Signed(Operand) - (1 - CarryIn)) \notin -128..127

\* C16 happens: $80 - $01 with the carry set overflows into $7F.
C16_Witness ==
    /\ StepDone
    /\ last.op = 233
    /\ last.pre.a = 128
    /\ last.pre.p = 1
    /\ Operand = 1
    /\ a = 127
    /\ p = 65

\* The binary sum of A, the operand and the carry before the last call.
BinarySum == last.pre.a + Operand + CarryIn

\* C17, as claimed: after ADC with D set N, Z and V are as the binary
\* computation A + operand + C leaves them: N is bit 7 and Z the zero test
\* of the binary sum mod 256, V the binary signed overflow.
C17_AdcDecimalBinaryFlags ==
    (StepDone /\ last.op \in AdcOps /\ Flag(last.pre.p, 8)) =>
        /\ Flag(p, 128) <=> BinarySum % 256 >= 128
        /\ Flag(p, 2) <=> BinarySum % 256 = 0
        /\ Flag(p, 64) <=>
              (Signed(last.pre.a) + Signed(Operand) + CarryIn) \notin -128..127

\* C17, amended: after ADC with D set N is bit 7 and Z the zero test of the
\* decimal result left in A, and V is left as it was.
C17_AdcDecimalFlags ==
    (StepDone /\ last.op \in AdcOps /\ Flag(last.pre.p, 8)) =>
        /\ Flag(p, 128) <=> a >= 128
        /\ Flag(p, 2) <=> a = 0
        /\ Flag(p, 64) <=> Flag(last.pre.p, 64)

\* C17 happens: $99 + $01 + 1 in decimal leaves $01 with N clear and V
\* still set, where the binary sum $9B has bit 7 set and no overflow.
C17_Witness ==
    /\ StepDone
    /\ last.op = 105
    /\ last.pre.a = 153
    /\ last.pre.p = 207
    /\ Operand = 1
    /\ a = 1
    /\ p = 77

\* Packed BCD: both digits of the byte are 0..9; the number a packed byte
\* encodes, and the byte that encodes a number below 100.
Bcd(n) == n % 16 <= 9 /\ n \div 16 <= 9

Dec(n) == (n \div 16) * 10 + (n % 16)

Enc(d) == (d \div 10) * 16 + (d % 10)

\* C18: with D set and A and the operand packed BCD, ADC leaves in A the
\* packed BCD of (A + M + C) mod 100 with C set iff the decimal sum
\* exceeds 99, and SBC the packed BCD of (A - M - (1-C)) mod 100 with C set
\* iff no decimal borrow occurred, for every carry.
C18_Decimal ==
    (StepDone /\ Flag(last.pre.p, 8) /\ Bcd(last.pre.a) /\ Bcd(Operand)) =>
        /\ last.op \in AdcOps =>
              /\ a = Enc((Dec(last.pre.a) + Dec(Operand) + CarryIn) % 100)
              /\ Flag(p, 1) <=> Dec(last.pre.a) + Dec(Operand) + CarryIn > 99
        /\ last.op \in SbcOps =>
              /\ a = Enc((Dec(last.pre.a) - Dec(Operand) - (1 - CarryIn)) % 100)
              /\ Flag(p, 1) <=> Dec(last.pre.a) >= Dec(Operand) + (1 - CarryIn)
              /\ Flag(p, 1) <=> last.pre.a >= Operand + (1 - CarryIn)

\* C18 happens: 10 - 19 - 1 in decimal leaves 90 and a borrow.
C18_Witness ==
    /\ StepDone
    /\ last.op = 233
    /\ last.pre.a = 16
    /\ last.pre.p = 8
    /\ Operand = 25
    /\ a = 144
    /\ ~Flag(p, 1)

CmpOps == {201, 197, 213, 205, 221, 217, 193, 209}

CpxOps == {224, 228, 236}

CpyOps == {192, 196, 204}

\* The register a compare opcode compares, as it was before the last call.
Compared ==
    CASE last.op \in CmpOps -> last.pre.a
      [] last.op \in CpxOps -> last.pre.x
      [] last.op \in CpyOps -> last.pre.y

\* C19: after CMP, CPX or CPY in any addressing mode C is set iff R >= M,
\* Z iff R = M, N is bit 7 of (R - M) mod 256, and the registers and the
\* flags V, D, I are unchanged.
C19_Compare ==
    (StepDone /\ last.op \in CmpOps \cup CpxOps \cup CpyOps) =>
        /\ Flag(p, 1) <=> Compared >= Operand
        /\ Flag(p, 2) <=> Compared = Operand
        /\ Flag(p, 128) <=> (Compared - Operand) % 256 >= 128
        /\ <<a, x, y, s>> = <<last.pre.a, last.pre.x, last.pre.y, last.pre.s>>
        /\ \A k \in {64, 8, 4} : Flag(p, k) <=> Flag(last.pre.p, k)

\* C19 happens: CPX of X = $10 with $80: the difference $90 sets N, C is
\* clear, and V, D, I stay set.
C19_Witness ==
    /\ StepDone
    /\ last.op = 224
    /\ last.pre.x = 16
    /\ last.pre.p = 207
    /\ Operand = 128
    /\ p = 204

AslOps == {10, 6, 22, 14, 30}

RolOps == {42, 38, 54, 46, 62}

LsrOps == {74, 70, 86, 78, 94}

RorOps == {106, 102, 118, 110, 126}

\* The shifts of the accumulator.
AccOps == {10, 42, 74, 106}

\* The byte the shift of the last Step has taken, and the byte it has left:
\* A, or the byte read from memory and the byte written back there last.
ShiftIn ==
    IF last.op \in AccOps THEN last.pre.a
    ELSE Access(Len(last.trace) - 1)[4]

ShiftOut ==
    IF last.op \in AccOps THEN a ELSE Access(Len(last.trace))[4]

\* C20: after ASL, LSR, ROL or ROR on the accumulator or on memory C is
\* the bit shifted out (bit 7 for ASL and ROL, bit 0 for LSR and ROR), the
\* result is 2b mod 256 for ASL, b div 2 for LSR, (2b mod 256) + c for ROL
\* and (b div 2) + 128c for ROR, and N and Z reflect the result.
C20_Shift ==
    (StepDone /\ last.op \in AslOps \cup RolOps \cup LsrOps \cup RorOps) =>
        /\ last.op \in AslOps \cup RolOps => (Flag(p, 1) <=> ShiftIn >= 128)
        /\ last.op \in LsrOps \cup RorOps => (Flag(p, 1) <=> ShiftIn % 2 = 1)
        /\ last.op \in AslOps => ShiftOut = (2 * ShiftIn) % 256
        /\ last.op \in LsrOps => ShiftOut = ShiftIn \div 2 /\ ~Flag(p, 128)
        /\ last.op \in RolOps => ShiftOut = ((2 * ShiftIn) % 256) + CarryIn
        /\ last.op \in RorOps => ShiftOut = (ShiftIn \div 2) + 128 * CarryIn
        /\ Flag(p, 128) <=> ShiftOut >= 128
        /\ Flag(p, 2) <=> ShiftOut = 0
        /\ last.op \notin AccOps =>
              /\ Access(Len(last.trace) - 1)[1] = "R"
              /\ Access(Len(last.trace))[1] = "W"
              /\ Access(Len(last.trace))[2] = Access(Len(last.trace) - 1)[2]
              /\ Access(Len(last.trace))[3] = Access(Len(last.trace) - 1)[3]
              /\ a = last.pre.a

\* C20 happens: ROR of the zero page byte $01 with the carry set writes
\* $80 back and leaves N and C set.
C20_Witness ==
    /\ StepDone
    /\ last.op = 102
    /\ last.pre.p = 1
    /\ Access(3) = <<"R", 18, 0, 1>>
    /\ Access(4) = <<"W", 18, 0, 128>>
    /\ p = 129


-----------------------------------------------------------------------------
\* C21: a Step executing JMP (oper) reads the opcode and the pointer (l, h),
\* then the byte at (l, h) into PCL and the byte at ((l+1) mod 256, h) into
\* PCH, so that JMP ($hhFF) takes the high byte from $hh00, and returns 5
\* cycles.
C21_JmpIndirect ==
    (StepDone /\ last.op = 108) =>
        /\ Len(last.trace) = 5
        /\ Access(1) = <<"R", last.pre.pcl, last.pre.pch, 108>>
        /\ Access(2) = <<"R", After(1)[1], After(1)[2], Access(2)[4]>>
        /\ Access(3) = <<"R", After(2)[1], After(2)[2], Access(3)[4]>>
        /\ Access(4) = <<"R", Access(2)[4], Access(3)[4], pcl>>
        /\ Access(5) = <<"R", B(Access(2)[4] + 1), Access(3)[4], pch>>
        /\ last.ret = 5

\* JMP ($80FF) has read PCL from $80FF and PCH from $8000.
C21_Witness ==
    /\ StepDone /\ last.op = 108
    /\ Access(4) = <<"R", 255, 128, 170>>
    /\ Access(5) = <<"R", 0, 128, 85>>
    /\ pcl = 170 /\ pch = 85


\* The last Step executed an instruction of addressing mode m that
\* addresses memory (a NOP makes no access).
Mode(m) == DocMode(last.op) = m /\ DocMnemonic(last.op) # "NOP"

\* The zero page address the last Step made its k-th access to is z.
ZeroPage(k, z) == Access(k)[2] = B(z) /\ Access(k)[3] = 0

\* C22: zero page address arithmetic wraps in 8 bits and stays on page $00:
\* zeropage,X and zeropage,Y access ((operand + index) mod 256, $00),
\* (indirect,X) reads its pointer at (operand + X) mod 256 and
\* (operand + X + 1) mod 256, and (indirect),Y reads its pointer at operand
\* and (operand + 1) mod 256.
C22_ZeroPageWrap ==
    StepDone =>
        /\ Mode("zeropage,X") =>
              /\ Len(last.trace) >= 3
              /\ \A k \in 3..Len(last.trace) :
                     ZeroPage(k, Access(2)[4] + last.pre.x)
        /\ Mode("zeropage,Y") =>
              /\ Len(last.trace) >= 3
              /\ \A k \in 3..Len(last.trace) :
                     ZeroPage(k, Access(2)[4] + last.pre.y)
        /\ Mode("(indirect,X)") =>
              /\ Len(last.trace) >= 5
              /\ ZeroPage(3, Access(2)[4] + last.pre.x)
              /\ ZeroPage(4, Access(2)[4] + last.pre.x + 1)
        /\ Mode("(indirect),Y") =>
              /\ Len(last.trace) >= 5
              /\ ZeroPage(3, Access(2)[4])
              /\ ZeroPage(4, Access(2)[4] + 1)

\* LDA ($EF,X) with X = $10 has read its pointer from $00FF and $0000.
C22_Witness ==
    /\ StepDone /\ last.op = 161 /\ last.pre.x = 16
    /\ Access(2)[4] = 239
    /\ Access(3) = <<"R", 255, 0, 64>>
    /\ Access(4) = <<"R", 0, 0, 35>>
    /\ Access(5) = <<"R", 64, 35, 146>>
    /\ a = 146


\* The last call was a Step that executed opcode op.
Did(op) == StepDone /\ last.op = op

\* C23: a PHA and the PLA that the next Step executes leave A and S as they
\* were before the PHA, whatever A and S were (S = $00 wraps to $FF and
\* back), with Z set exactly if A is zero and N equal to bit 7 of A.
C23_PhaPla ==
    [][(Did(72) /\ Did(104)') =>
          /\ a' = last.pre.a
          /\ s' = last.pre.s
          /\ has(p', flagZ) <=> (last.pre.a = 0)
          /\ has(p', flagN) <=> (last.pre.a >= 128)]_vars

\* A PLA has pulled $80 from $0100 after the PHA that wrapped S from $00.
C23_Witness ==
    /\ Did(104) /\ bus = "pha"
    /\ last.pre.s = 255 /\ s = 0
    /\ Access(2) = <<"R", 0, 1, 128>>
    /\ a = 128 /\ has(p, flagN) /\ ~has(p, flagZ)


\* C24: PHP stores P with U and B set at $0100 + S and leaves P as it was;
\* the PLP that the next Step executes leaves P (U and B clear) and S as
\* they were before the PHP.
C24_PhpPlp ==
    [][(Did(8) /\ Did(40)') =>
          /\ Access(2) = <<"W", last.pre.s, 1, Or(last.pre.p, 48)>>
          /\ p = last.pre.p
          /\ p' = last.pre.p
          /\ And(p', 48) = 0
          /\ s' = last.pre.s]_vars

\* A PLP has pulled $FF from $0100 after the PHP that wrapped S from $00
\* with every flag set, and P is $CF again.
C24_Witness ==
    /\ Did(40) /\ bus = "php"
    /\ last.pre.s = 255 /\ s = 0 /\ last.pre.p = 207
    /\ Access(2) = <<"R", 0, 1, 255>>
    /\ p = 207


\* The last call has changed flag f.
Changed(f) == has(p, f) # has(last.pre.p, f)

\* Loads, stores, transfers, logical operations, increments and decrements.
Movers ==
    {"LDA", "LDX", "LDY", "STA", "STX", "STY", "TAX", "TAY", "TSX", "TXA",
     "TXS", "TYA", "AND", "ORA", "EOR", "INC", "INX", "INY", "DEC", "DEX",
     "DEY"}

\* C25: a successful Step leaves unchanged each of the flags N, Z, C, I, D, V
\* that OPCODES.md marks with '-' for the opcode it executes; D changes only
\* through SED, CLD, PLP and RTI, I only through SEI, CLI, PLP, RTI and BRK,
\* and loads, stores, transfers, logical operations, increments and
\* decrements change neither C nor V.
C25_FlagsKept ==
    (StepDone /\ last.op >= 0) =>
        /\ \A f \in {flagN, flagZ, flagC, flagI, flagD, flagV} :
              ~has(DocFlags(last.op), f) => ~Changed(f)
        /\ Changed(flagD) => last.op \in {248, 216, 40, 64}
        /\ Changed(flagI) => last.op \in {120, 88, 40, 64, 0}
        /\ DocMnemonic(last.op) \in Movers =>
              ~Changed(flagC) /\ ~Changed(flagV)

\* LDA #$12 executed with every flag set has cleared N and Z and has left
\* C, I, D and V set.
C25_Witness ==
    /\ Did(169) /\ last.pre.p = 207
    /\ Access(2)[4] = 18
    /\ p = 77


\* Every bus access of the last Step from the k-th on was made to the
\* address base + index mod 65536, the base having low byte l and high
\* byte h.
Indexed(k, l, h, index) ==
    /\ Len(last.trace) >= k
    /\ \A j \in k..Len(last.trace) :
          Addr(Access(j)[2], Access(j)[3]) = (Addr(l, h) + index) % 65536

\* The cycles OPCODES.md gives the last Step where adding index to the low
\* byte l crosses a page: one more where the count is marked *.
Crossing(l, index) ==
    (last.op \in DocPageMark /\ l + index > 255) =>
        last.ret = DocCycles(last.op) + 1

\* C26: absolute,X, absolute,Y and (indirect),Y address (base + index) mod
\* 65536, the carry of the low byte going into the high byte and the high
\* byte wrapping from $FF to $00, and a read whose count is marked * is
\* charged the cycle of the page crossing then too.
C26_IndexedAddress ==
    StepDone =>
        /\ Mode("absolute,X") =>
              /\ Indexed(4, Access(2)[4], Access(3)[4], last.pre.x)
              /\ Crossing(Access(2)[4], last.pre.x)
        /\ Mode("absolute,Y") =>
              /\ Indexed(4, Access(2)[4], Access(3)[4], last.pre.y)
              /\ Crossing(Access(2)[4], last.pre.y)
        /\ Mode("(indirect),Y") =>
              /\ Indexed(5, Access(3)[4], Access(4)[4], last.pre.y)
              /\ Crossing(Access(3)[4], last.pre.y)

\* LDA ($FE),Y with the pointer $FFFE and Y = $02 has read $0000 in 6
\* cycles.
C26_Witness ==
    /\ Did(177) /\ last.pre.y = 2
    /\ Access(2)[4] = 254
    /\ Access(3) = <<"R", 254, 0, 254>>
    /\ Access(4) = <<"R", 255, 0, 255>>
    /\ Access(5) = <<"R", 0, 0, 146>>
    /\ last.ret = 6


\* The last call was an NMI or an IRQ that was accepted.
Taken ==
    \/ last.call = "NMI"
    \/ last.call = "IRQ" /\ ~has(last.pre.p, flagI)

\* C27: RTI undoes the entry of an interrupt: the RTI that the next Step
\* executes after an NMI or an accepted IRQ leaves PC (without an
\* increment), P and S as they were before the interrupt, and the RTI that
\* the next Step executes after a BRK at address a leaves PC at a+2 and P
\* and S as they were before the BRK.
C27_RtiReturns ==
    [][/\ (Taken /\ Did(64)') =>
              /\ pcl' = last.pre.pcl /\ pch' = last.pre.pch
              /\ p' = last.pre.p
              /\ s' = last.pre.s
       /\ (Did(0) /\ Did(64)') =>
              /\ <<pcl', pch'>> = After(2)
              /\ p' = last.pre.p
              /\ s' = last.pre.s]_vars

\* The RTI at the NMI vector $0410 has pulled the status $EF and the
\* address $0407 an NMI has pushed with S = $00, and PC is $0407, P is $CF
\* and S is $00 again.
C27_Witness ==
    /\ Did(64)
    /\ last.pre.pcl = 16 /\ last.pre.pch = 4 /\ last.pre.s = 253
    /\ Access(2) = <<"R", 254, 1, 239>>
    /\ Access(3) = <<"R", 255, 1, 7>>
    /\ Access(4) = <<"R", 0, 1, 4>>
    /\ pcl = 7 /\ pch = 4 /\ p = 207 /\ s = 0


\* C28: a JSR at address a pushes the high byte, then the low byte of a+2
\* and sets PC to its operand; the RTS that the next Step executes leaves
\* PC at (a+3) mod 65536, with the carry into the high byte, and S as it was
\* before the JSR.
C28_JsrRts ==
    [][(Did(32) /\ Did(96)') =>
          /\ Access(3) = <<"W", last.pre.s, 1, After(2)[2]>>
          /\ Access(4) = <<"W", B(last.pre.s - 1), 1, After(2)[1]>>
          /\ <<pcl, pch>> = <<Access(2)[4], Access(5)[4]>>
          /\ s = B(last.pre.s - 2)
          /\ <<pcl', pch'>> = After(3)
          /\ s' = last.pre.s]_vars

\* The RTS at $0410 has pulled the address $04FF the JSR at $04FD has
\* pushed with S = $00, and PC is $0500 and S is $00 again.
C28_Witness ==
    /\ Did(96) /\ bus = "jsr"
    /\ last.pre.pcl = 16 /\ last.pre.pch = 4 /\ last.pre.s = 254
    /\ Access(2) = <<"R", 255, 1, 255>>
    /\ Access(3) = <<"R", 0, 1, 4>>
    /\ pcl = 0 /\ pch = 5 /\ s = 0


\* The opcode fetch of the last Step has failed on the bus.
FetchFailed ==
    /\ last.call = "Step"
    /\ last.op = -1
    /\ last.err \in {"bus", "panic"}

\* C29: a Step whose opcode fetch fails on the bus returns 0 cycles and the
\* error, leaves A, X, Y, S, P, PC and the halt latch as they were and
\* writes nothing on the bus.
C29_FetchFails ==
    FetchFailed =>
        /\ last.err = "bus"
        /\ last.ret = 0
        /\ RegsNow = last.pre
        /\ Writes = {}


\* The next call enters an interrupt: an NMI, an IRQ made with I clear, or a
\* Step that executes BRK.
Enters ==
    \/ last'.call = "NMI"
    \/ last'.call = "IRQ" /\ ~has(p, flagI)
    \/ Did(0)'

\* The next call is a Step that executes CLI, or a PLP or an RTI that pulls
\* a status with I clear.
Unmasks ==
    /\ Did(88)' \/ Did(40)' \/ Did(64)'
    /\ last'.op \in {40, 64} => ~has(last'.trace[2][4], flagI)

\* The next call is an IRQ that is ignored: no bus access, no register
\* changed.
Ignored == last'.call = "IRQ" /\ last'.trace = <<>> /\ RegsNow' = RegsNow

\* The next call is an IRQ that is accepted: PC and P pushed, PC loaded
\* from $FFFE/$FFFF.
Accepted ==
    /\ last'.call = "IRQ"
    /\ Len(last'.trace) = 5
    /\ s' = B(s - 3)
    /\ <<pcl', pch'>> = <<last'.trace[1][4], last'.trace[2][4]>>

\* The interrupt mask without the calls that clear it: an interrupt entry
\* leaves I set, an IRQ made while I is set is ignored, and an IRQ made
\* while I is clear is accepted.
Masking ==
    /\ Enters => has(p', flagI)
    /\ (has(p, flagI) /\ last'.call = "IRQ") => Ignored
    /\ (~has(p, flagI) /\ last'.call = "IRQ") => Accepted

=============================================================================
